---- MODULE Spec2Model ----
\* MiSub subscription aggregator (functions/[[path]].js): the node-line
\* transforms, generateCombinedNodeList with its concurrent fetches, and the
\* scope resolution and response logic of handleMisubRequest.
EXTENDS Integers, Sequences, FiniteSets, TLC

\* ---------------------------------------------------------------- bounds
MaxSubs == 3

\* ------------------------------------------------------- generic helpers
SeqToSet(s) == {s[i] : i \in 1..Len(s)}

RECURSIVE Flatten(_)
Flatten(ss) == IF ss = <<>> THEN <<>> ELSE Head(ss) \o Flatten(Tail(ss))

\* s.startsWith(p) on character sequences
StartsWith(s, p) ==
    /\ Len(p) <= Len(s)
    /\ SubSeq(s, 1, Len(p)) = p

\* a mutation of UniqueFrom: the last occurrence of a line is the one kept
RECURSIVE UniqueKeepLast(_, _)
UniqueKeepLast(lines, seen) ==
    IF lines = <<>> THEN <<>>
    ELSE IF Head(lines) \in SeqToSet(Tail(lines))
    THEN UniqueKeepLast(Tail(lines), seen)
    ELSE <<Head(lines)>> \o UniqueKeepLast(Tail(lines), seen)

\* [...new Set(lines)]: first occurrence kept, insertion order
RECURSIVE UniqueFrom(_, _)
UniqueFrom(lines, seen) ==
    IF lines = <<>> THEN <<>>
    ELSE IF Head(lines) \in seen THEN UniqueFrom(Tail(lines), seen)
    ELSE <<Head(lines)>> \o UniqueFrom(Tail(lines), seen \cup {Head(lines)})

\* a mutation of Unique: adjacent duplicates only are removed
RECURSIVE UniqueAdjacent(_)
UniqueAdjacent(lines) ==
    IF Len(lines) < 2 THEN lines
    ELSE IF lines[1] = lines[2] THEN UniqueAdjacent(Tail(lines))
    ELSE <<Head(lines)>> \o UniqueAdjacent(Tail(lines))

Unique(lines) == UniqueFrom(lines, {})

\* ------------------------------------------------------------ node lines
\* A node line "<scheme>://<rest>[#<frag>]" is a record
\*   scheme  the text before "://"
\*   rest    the text between "://" and the last '#'
\*   vm      for vmess: what atob + JSON.parse make of rest
\*           ("spaced": valid JSON with whitespace, "compact": valid JSON as
\*            JSON.stringify prints it, "badjson", "badb64"); "na" otherwise
\*   json    for vmess: the value JSON.parse gives ("object": an object whose
\*           ps is a string or missing, "psNumber": an object whose ps is a
\*           number, "array", "null", "string"); "na" otherwise
\*   lit     for json = "string": how many times the text is wrapped as a
\*           JSON string literal; 0 otherwise
\*   ps      the ps field of the vmess JSON (characters)
\*   hasFrag whether the line holds a '#'
\*   frag    the text after the last '#', as percent-encoding units
\* Characters of names: "a" "A" "b" are unreserved, " " and "M" (a non-ASCII
\* character of the manual label) are percent-encoded by encodeURIComponent,
\* and so is "U+FFFD", the replacement character.
\* Units of fragments: a literal unreserved character, or an escape; in a
\* body still to be decoded also "0xE3", a byte that is not UTF-8.
\* encodeURIComponent on one character
EncodeChar(c) ==
    CASE c = " " -> "%20"
      [] c = "M" -> "%E6"
      [] c = "U+FFFD" -> "%EF%BF%BD"
      [] OTHER -> c

\* decodeURIComponent on one unit; "%ZZ" and a lone "%" are malformed
BadUnits == {"%ZZ", "%"}

DecodeUnit(u) ==
    CASE u = "%20" -> " "
      [] u = "%E6" -> "M"
      [] u = "%61" -> "a"
      [] u = "%EF%BF%BD" -> "U+FFFD"
      [] OTHER -> u

encodeURIComponent(name) == [i \in 1..Len(name) |-> EncodeChar(name[i])]

\* decodeURIComponent throws URIError on a malformed escape
DecodeThrows(frag) == \E i \in 1..Len(frag) : frag[i] \in BadUnits

decodeURIComponent(frag) == [i \in 1..Len(frag) |-> DecodeUnit(frag[i])]

ValidSchemes ==
    {"ss", "ssr", "vmess", "vless", "trojan", "hysteria", "hysteria2", "hy",
     "hy2", "tuic", "anytls", "socks5"}

\* nodeRegex.test(line)
IsValidNodeLine(l) == l.scheme \in ValidSchemes

MkLine(scheme, rest, hasFrag, frag) ==
    [scheme |-> scheme, rest |-> rest, vm |-> "na", json |-> "na", lit |-> 0,
     ps |-> <<>>, hasFrag |-> hasFrag, frag |-> frag]

MkVmess(rest, vm, ps) ==
    [scheme |-> "vmess", rest |-> rest, vm |-> vm,
     json |-> IF vm \in {"spaced", "compact"} THEN "object" ELSE "na",
     lit |-> 0, ps |-> ps, hasFrag |-> FALSE, frag |-> <<>>]

\* atob(base64Part) and JSON.parse succeed: the payload is base64 of JSON and
\* no '#...' follows it ('#' is outside the base64 alphabet)
VmessParses(l) == l.vm \in {"spaced", "compact"} /\ ~l.hasFrag

\* a mutation of normalizeVmessLink: JSON.stringify(jsonString), the text is
\* not parsed first and comes out as a string literal
normalizeUnparsed(l) ==
    IF l.scheme # "vmess" THEN l
    ELSE IF l.vm \in {"spaced", "compact"} /\ ~l.hasFrag
         THEN [l EXCEPT !.vm = "compact", !.json = "string", !.lit = l.lit + 1,
                        !.ps = <<>>]
    ELSE l

\* normalizeVmessLink: JSON.stringify(JSON.parse(...)) re-encoded, the value
\* is the one parsed; a failure returns the link as it was
normalizeVmessLink(l) ==
    IF l.scheme # "vmess" THEN l
    ELSE IF VmessParses(l) THEN [l EXCEPT !.vm = "compact"]
    ELSE l

Separator == <<" ", "-", " ">>

\* a mutation of NewName: `${prefix}${original}`, the separator is left out
NewNameUnseparated(prefix, original) == prefix \o original

\* `${prefix} - ${original}` or prefix alone
NewName(prefix, original) ==
    IF original = <<>> THEN prefix ELSE prefix \o Separator \o original

\* appendToFragment throws when decodeURIComponent does
AppendThrows(l) == l.hasFrag /\ DecodeThrows(l.frag)

\* a mutation of appendToFragment: the name is not tested for the prefix
appendToFragmentAlways(l, prefix) ==
    LET originalName == IF l.hasFrag THEN decodeURIComponent(l.frag) ELSE <<>>
    IN  [l EXCEPT !.hasFrag = TRUE,
                  !.frag = encodeURIComponent(NewName(prefix, originalName))]

appendToFragment(l, prefix) ==
    LET originalName == IF l.hasFrag THEN decodeURIComponent(l.frag) ELSE <<>>
    IN  IF StartsWith(originalName, prefix) THEN l
        ELSE [l EXCEPT !.hasFrag = TRUE,
                       !.frag = encodeURIComponent(NewName(prefix, originalName))]

\* the try block of lines 429-443 completes: the payload parses to an object
\* with a string or missing ps, or to an array. (null.ps, a number's
\* startsWith and, the file being a module and so strict code, an assignment
\* to a property of a string all throw TypeError.)
VmessRenames(l) == VmessParses(l) /\ l.json \in {"object", "array"}

\* prependNodeName raises to its caller
PrependThrows(l, prefix) ==
    /\ prefix # <<>>
    /\ IF l.scheme = "vmess" /\ VmessRenames(l) THEN FALSE ELSE AppendThrows(l)

\* JSON.stringify drops the ps property set on an array
prependNodeName(l, prefix) ==
    IF prefix = <<>> THEN l
    ELSE IF l.scheme = "vmess" /\ VmessRenames(l)
         THEN [l EXCEPT !.vm = "compact",
                        !.ps = IF l.json = "array" \/ StartsWith(l.ps, prefix)
                               THEN l.ps
                               ELSE NewName(prefix, l.ps)]
    ELSE appendToFragment(l, prefix)

\* '手动节点', the fixed label of manual nodes
ManualLabel == <<"M">>

\* ---------------------------------------------------------- filter rules
\* sub.exclude is a sequence of rule lines, each a record
\*   keep     the line starts with "keep:"
\*   isProto  its content starts with "proto:"
\*   protos   the comma-separated words of a proto rule, trimmed
\*   pat      the content of a name rule: a literal text, or BadPattern, a
\*            text new RegExp rejects
Lower(c) == IF c = "A" THEN "a" ELSE c

LowerSeq(s) == [i \in 1..Len(s) |-> Lower(s[i])]

BadPattern == <<"(">>

\* new RegExp(p, 'i').test(name) for a literal p: a case-insensitive search
Contains(name, p) ==
    \E i \in 0..(Len(name) - Len(p)) :
        SubSeq(LowerSeq(name), i + 1, i + Len(p)) = LowerSeq(p)

ProtoRule(keep, protos) ==
    [keep |-> keep, isProto |-> TRUE, protos |-> protos, pat |-> <<>>]

NameRule(keep, pat) ==
    [keep |-> keep, isProto |-> FALSE, protos |-> {}, pat |-> pat]

KeepRules(rules) == SelectSeq(rules, LAMBDA r : r.keep)

\* a mutation of ActiveRules: every rule is read in either mode
ActiveRulesAll(rules) == rules

\* the rules the chosen mode reads: keepRules in allow-list mode, else all
ActiveRules(rules) ==
    IF KeepRules(rules) # <<>> THEN KeepRules(rules) ELSE rules

\* p.trim().toLowerCase() on the words of the proto rules of this model
LowerWord(w) ==
    CASE w = "SS" -> "ss"
      [] w = "SSR" -> "ssr"
      [] w = "Vless" -> "vless"
      [] OTHER -> w

ProtocolSet(rules) ==
    {LowerWord(w) :
        w \in UNION {r.protos :
                        r \in {x \in SeqToSet(ActiveRules(rules)) : x.isProto}}}

NameRegexParts(rules) ==
    {r.pat : r \in {x \in SeqToSet(ActiveRules(rules)) : ~x.isProto}}

\* new RegExp(nameRegexParts.join('|'), 'i') throws SyntaxError
FilterThrows(rules) == rules # <<>> /\ BadPattern \in NameRegexParts(rules)

\* a mutation of NameMatches: the fragment is tested as it stands in the
\* line, not decoded
NameMatchesUndecoded(l, rules) ==
    /\ l.hasFrag
    /\ \E p \in NameRegexParts(rules) : Contains(l.frag, p)

\* nameRegex exists, the line has a fragment that decodes, and it matches
NameMatches(l, rules) ==
    /\ l.hasFrag
    /\ ~DecodeThrows(l.frag)
    /\ \E p \in NameRegexParts(rules) : Contains(decodeURIComponent(l.frag), p)

\* a mutation of FilterKeeps: in allow-list mode a line must match both a
\* protocol and a name rule
FilterKeepsBoth(l, rules) ==
    IF KeepRules(rules) # <<>>
    THEN l.scheme \in ProtocolSet(rules) /\ NameMatches(l, rules)
    ELSE ~(l.scheme \in ProtocolSet(rules) \/ NameMatches(l, rules))

\* the filter callback of validNodes.filter, in either mode; the lines it
\* sees passed nodeRegex, so their scheme is lower-case already
FilterKeeps(l, rules) ==
    IF KeepRules(rules) # <<>>
    THEN l.scheme \in ProtocolSet(rules) \/ NameMatches(l, rules)
    ELSE ~(l.scheme \in ProtocolSet(rules) \/ NameMatches(l, rules))

ApplyExclude(lines, rules) ==
    IF rules = <<>> THEN lines
    ELSE SelectSeq(lines, LAMBDA l : FilterKeeps(l, rules))

\* -------------------------------------------------------- fetched bodies
\* A response body is a record: wrap says how the node lines are carried
\*   "plain"       text, with characters outside the base64 alphabet
\*   "b64"         base64 of the text, more than 20 characters of it
\*   "b64short"    base64 of the text, 20 characters or fewer
\*   "b64bad"      more than 20 base64 characters that atob rejects
\*   "b64badutf8"  base64, more than 20 characters, of bytes that are not
\*                 UTF-8 throughout
\* and lines the node lines it carries.
JunkLine == MkLine("", "garbage", FALSE, <<>>)

\* new TextDecoder('utf-8').decode(bytes): no fatal flag is given, so a byte
\* sequence that is not UTF-8 does not throw and comes out as U+FFFD
Utf8Unit(u) == IF u = "0xE3" THEN "U+FFFD" ELSE u

TextDecode(l) == [l EXCEPT !.frag = [i \in 1..Len(l.frag) |-> Utf8Unit(l.frag[i])]]

\* the text after the base64 heuristic (lines 490-501), split in trimmed
\* lines: text left alone reads as the lines it carries when plain, and as a
\* line of base64 characters otherwise
DecodeBody(body) ==
    CASE body.wrap \in {"b64bad", "b64short"} -> <<JunkLine>>
      [] body.wrap = "b64badutf8" ->
           [i \in 1..Len(body.lines) |-> TextDecode(body.lines[i])]
      [] OTHER -> body.lines

\* A fetch outcome: kind is "ok" (2xx, body delivered), "nonok" (other
\* status), "neterr" (fetch rejects), "timeout" (no response by the deadline),
\* "bodyerr" (response.text() rejects).
FetchFails(o) == o.kind \in {"nonok", "neterr", "timeout", "bodyerr"}

\* ------------------------------------------------------------- sources
\* A stored source: kind is "http" (url starts with lower-case http), "HTTP"
\* (url starts with http in another case) or "manual" (url holds node lines);
\* remaining is max(0, userInfo.total - upload - download), 0 without userInfo.
Source(id, kind, lines, name, exclude, enabled, remaining) ==
    [id |-> id, kind |-> kind, lines |-> lines, name |-> name,
     exclude |-> exclude, enabled |-> enabled, remaining |-> remaining]

\* sub.url.toLowerCase().startsWith('http'), the aggregator's test
IsHttpSub(sub) == sub.kind \in {"http", "HTTP"}

HttpSubs(misubs) == SelectSeq(misubs, IsHttpSub)

\* manualNodesContent.split('\n') ... filter(nodeRegex) .map(normalizeVmessLink)
ManualValidNodes(misubs) ==
    LET manual == SelectSeq(misubs, LAMBDA s : ~IsHttpSub(s))
        content == Flatten([i \in 1..Len(manual) |-> manual[i].lines])
        valid == SelectSeq(content, IsValidNodeLine)
    IN  [i \in 1..Len(valid) |-> normalizeVmessLink(valid[i])]

\* the manual pipeline raises: prependNodeName is called outside any try
ManualThrows(misubs, prependSubName) ==
    /\ prependSubName
    /\ \E l \in SeqToSet(ManualValidNodes(misubs)) : PrependThrows(l, ManualLabel)

processedManualNodes(misubs, prependSubName) ==
    LET nodes == ManualValidNodes(misubs)
    IN  IF prependSubName
        THEN [i \in 1..Len(nodes) |-> prependNodeName(nodes[i], ManualLabel)]
        ELSE nodes

\* a mutation of SubContent: response.ok is not looked at
SubContentIgnoringStatus(sub, o, prependSubName) ==
    IF o.kind \in {"neterr", "timeout", "bodyerr"} THEN <<>>
    ELSE LET validNodes == SelectSeq(DecodeBody(o.body), IsValidNodeLine)
         IN  IF FilterThrows(sub.exclude) THEN <<>>
             ELSE LET kept == ApplyExclude(validNodes, sub.exclude)
                  IN  IF prependSubName /\ sub.name # <<>>
                      THEN IF \E l \in SeqToSet(kept) : PrependThrows(l, sub.name)
                           THEN <<>>
                           ELSE [i \in 1..Len(kept) |-> prependNodeName(kept[i], sub.name)]
                      ELSE kept

\* what the async callback of one HTTP source resolves to once the response
\* is in hand (lines 489-575): any throw inside is caught and yields ''
SubContent(sub, o, prependSubName) ==
    IF FetchFails(o) THEN <<>>
    ELSE LET validNodes == SelectSeq(DecodeBody(o.body), IsValidNodeLine)
         IN  IF FilterThrows(sub.exclude) THEN <<>>
             ELSE LET kept == ApplyExclude(validNodes, sub.exclude)
                  IN  IF prependSubName /\ sub.name # <<>>
                      THEN IF \E l \in SeqToSet(kept) : PrependThrows(l, sub.name)
                           THEN <<>>
                           ELSE [i \in 1..Len(kept) |-> prependNodeName(kept[i], sub.name)]
                      ELSE kept

\* a mutation of CombineContents: the fetched contents are put first
CombineFetchedFirst(manualNodes, subContents, prependedContent) ==
    prependedContent \o Unique(Flatten(subContents) \o manualNodes)

\* a mutation of CombineContents: the summary node is put after the lines
CombineSummaryLast(manualNodes, subContents, prependedContent) ==
    Unique(manualNodes \o Flatten(subContents)) \o prependedContent

\* lines 578-584: concatenate, deduplicate, prepend the summary node
CombineContents(manualNodes, subContents, prependedContent) ==
    prependedContent \o Unique(manualNodes \o Flatten(subContents))

\* ------------------------------------------------- inputs of the model
lnSS == MkLine("ss", "abc", TRUE, <<"a">>)
lnVless == MkLine("vless", "nodeA2", FALSE, <<>>)
lnTrojan == MkLine("trojan", "nodeB1", TRUE, <<"b">>)
lnBadPct == MkLine("ss", "abc", TRUE, <<"%ZZ">>)
lnComment == MkLine("", "comment", FALSE, <<>>)
lnVmessSpaced == MkVmess("cfg1", "spaced", <<"a">>)
lnVmessCompact == MkVmess("cfg1", "compact", <<"a">>)

\* the "remaining traffic" node handleMisubRequest builds (line 700)
FakeNode == MkLine("trojan", "00000000@127.0.0.1:443", TRUE, <<"%E6">>)

ManualSources ==
    {Source("m1", "manual", <<lnSS, lnVmessSpaced, lnComment>>, <<>>, <<>>, TRUE, 0),
     Source("m2", "manual", <<lnVmessCompact, lnBadPct, FakeNode>>, <<>>, <<>>, TRUE, 0)}

HttpSources ==
    {Source("h1", "http", <<>>, <<"A">>, <<>>, TRUE, 1),
     Source("h2", "HTTP", <<>>, <<>>, <<ProtoRule(FALSE, {"ss"})>>, TRUE, 0)}

HttpIds == {s.id : s \in HttpSources}

Bodies ==
    {[wrap |-> "plain", lines |-> <<lnVmessSpaced, lnVless, lnSS>>],
     [wrap |-> "b64", lines |-> <<lnVless, lnTrojan, FakeNode, lnBadPct>>]}

NoBody == [wrap |-> "plain", lines |-> <<>>]

ErrorPage == [wrap |-> "plain", lines |-> <<lnTrojan>>]

Outcomes ==
    {[kind |-> "ok", body |-> b] : b \in Bodies}
    \cup {[kind |-> "nonok", body |-> ErrorPage]}
    \cup {[kind |-> k, body |-> NoBody] : k \in {"neterr", "timeout", "bodyerr"}}

\* sequences of distinct elements of S, of length at most n
RECURSIVE DistinctSeqs(_, _)
DistinctSeqs(S, n) ==
    IF n = 0 THEN {<<>>}
    ELSE LET shorter == DistinctSeqs(S, n - 1)
         IN  shorter \cup
             UNION {{Append(q, x) : x \in S \ SeqToSet(q)} :
                      q \in {r \in shorter : Len(r) = n - 1}}

\* ------------------------------------------------------------- state
VARIABLES
    misubs,            \* generateCombinedNodeList: the source list passed in
    prependSubName,    \* config.prependSubName
    prependedContent,  \* the summary node passed in: <<>> or <<FakeNode>>
    outcome,           \* source id -> what its fetch will meet
    aggpc,             \* "start", "fetching", "done", "threw"
    manualNodes,       \* processedManualNodes
    fstate,            \* per HTTP source: "pending", "body", "settled"
    settled,           \* <<[idx, content]>> in the order the callbacks returned
    now,               \* ms since the fetches were issued
    output,            \* the list generateCombinedNodeList returned
    run,               \* "first" or "second" run on the same inputs
    firstOutput,       \* [pc, lines] of the first run, once the second began
    settingsData,      \* the stored settings record
    allMisubs,         \* the stored source list
    allProfiles,       \* the stored profile list
    request,           \* [token, profileIdentifier, target] of the request
    reqpc,             \* where handleMisubRequest stands
    targetMisubs,      \* the sources in scope
    effective,         \* [subConverter, subConfig, subName] in effect
    targetFormat,      \* the target format selected
    notifications,     \* sendTgNotification calls dispatched
    backendCalls,      \* requests made to the conversion backend
    response,          \* [status, kind, lines] returned, status 0 before
    callpc,            \* a transform called on its own: "none", "input", "once", "twice"
    arg,               \* [op, line, prefix, lines, rules, body] it is called on
    res,               \* [thrown, first, line, lines] it gave
    tg,                \* the access notification: "none", "pending", "true", "false", "raised"
    kvLog,             \* the store operations, session checks and outbound
                       \* fetches of the handler, in order
    backendReply,      \* what the fetch of the conversion backend met, "none" before
    cronpc,            \* handleCronTrigger: "none", "idle", "loop", "done"
    storedSubs,        \* the source list under KV_KEY_SUBS, as the refresh sees it
    cronSettings,      \* the settings handleCronTrigger read
    allSubs,           \* handleCronTrigger: the list it read and updates
    ci,                \* handleCronTrigger: index of the source the loop is at
    changesMade,       \* handleCronTrigger: changesMade
    clock,             \* Date.now(), ms
    runs,              \* refresh runs started
    attempt,           \* the last source refreshed: [idx, called, expire, traffic]
    lastOk,            \* per source: when a notification of each kind last succeeded
    refreshed,         \* indices of the sources the run gave new cached data
    apipc,             \* the API: "none", "idle", "answered", "crashed"
    apiReq,            \* the last /api/ request: [path, method, cron, secret, cookie, body]
    apiResp,           \* the status it was answered with, 0 when none
    kv,                \* the store as the API sees it: key -> [has, data, text]
    calls,             \* /api/ requests made
    migrated           \* a migration has succeeded

aggVars ==
    <<misubs, prependSubName, prependedContent, outcome, aggpc, manualNodes,
      fstate, settled, now, output, run, firstOutput>>

reqVars ==
    <<settingsData, allMisubs, allProfiles, request, reqpc, targetMisubs,
      effective, targetFormat, notifications, backendCalls, response>>

callVars == <<callpc, arg, res>>

sideVars == <<tg, kvLog, backendReply>>

cronVars ==
    <<cronpc, storedSubs, cronSettings, allSubs, ci, changesMade, clock, runs,
      attempt, lastOk, refreshed>>

apiVars == <<apipc, apiReq, apiResp, kv, calls, migrated>>

opsVars == <<cronVars, apiVars>>

vars == <<aggVars, reqVars, callVars, sideVars, opsVars>>

\* setTimeout(..., 10000) of the race
FetchTimeoutMs == 10000

NoOutcome == [kind |-> "neterr", body |-> NoBody]

httpSubs == HttpSubs(misubs)

HttpIdx == 1..Len(httpSubs)

OutcomeOf(i) == outcome[httpSubs[i].id]

\* a mutation of PromiseAll: values in the order the promises settled
PromiseAllBySettling(entries) == [k \in 1..Len(entries) |-> entries[k].content]

\* Promise.all: the values in the order of the promises passed, whatever the
\* order they settled in
PromiseAll(entries) ==
    [i \in 1..Len(entries) |->
        (CHOOSE e \in SeqToSet(entries) : e.idx = i).content]

NoResponse == [status |-> 0, kind |-> "none", lines |-> <<>>, detail |-> <<>>]

NoEffective == [subConverter |-> "", subConfig |-> "", subName |-> ""]

NoLine == [scheme |-> "", rest |-> "", vm |-> "na", json |-> "na", lit |-> 0,
           ps |-> <<>>, hasFrag |-> FALSE, frag |-> <<>>]

NoResult == [thrown |-> FALSE, first |-> NoLine, line |-> NoLine, lines |-> <<>>]

\* no transform is called on its own
CallIdle ==
    /\ callpc = "none"
    /\ arg = [op |-> "none", line |-> NoLine, prefix |-> <<>>, lines |-> <<>>,
              rules |-> <<>>, body |-> NoBody]
    /\ res = NoResult

\* no notification dispatched, no store operation made, no backend fetched
SideIdle ==
    /\ tg = "none"
    /\ kvLog = <<>>
    /\ backendReply = "none"

NoAttempt == [idx |-> 0, called |-> FALSE, expire |-> "none", traffic |-> "none"]

\* no refresh run is modelled
CronIdle ==
    /\ cronpc = "none"
    /\ storedSubs = <<>>
    /\ cronSettings = [BotToken |-> "", ChatID |-> "", NotifyThresholdDays |-> 0,
                       NotifyThresholdPercent |-> 0]
    /\ allSubs = <<>>
    /\ ci = 0
    /\ changesMade = FALSE
    /\ clock = 0
    /\ runs = 0
    /\ attempt = NoAttempt
    /\ lastOk = <<>>
    /\ refreshed = {}

\* a key the store does not hold
Absent == [has |-> FALSE, data |-> "", text |-> ""]

NoCookie == [has |-> FALSE, parts |-> 0, data |-> "", signed |-> FALSE, age |-> 0]

NoRequest ==
    [path |-> "", method |-> "", cron |-> FALSE, secret |-> FALSE,
     cookie |-> NoCookie, body |-> ""]

\* no API request is modelled
ApiIdle ==
    /\ apipc = "none"
    /\ apiReq = NoRequest
    /\ apiResp = 0
    /\ kv = [old |-> Absent, subs |-> Absent, profiles |-> Absent,
             backup |-> Absent, settings |-> Absent]
    /\ calls = 0
    /\ migrated = FALSE

OpsIdle ==
    /\ CronIdle
    /\ ApiIdle

\* no subscription request is being served
RequestIdle ==
    /\ settingsData = [mytoken |-> "", profileToken |-> "", subConverter |-> "",
                       subConfig |-> "", prependSubName |-> FALSE,
                       BotToken |-> "", ChatID |-> ""]
    /\ allMisubs = <<>>
    /\ allProfiles = <<>>
    /\ request = [token |-> "", profileIdentifier |-> "", target |-> "",
                  flags |-> <<>>, ua |-> <<>>]
    /\ reqpc = "none"
    /\ targetMisubs = <<>>
    /\ effective = NoEffective
    /\ targetFormat = ""
    /\ notifications = 0
    /\ backendCalls = 0
    /\ response = NoResponse

AggInit ==
    /\ RequestIdle
    /\ CallIdle
    /\ SideIdle
    /\ OpsIdle
    /\ misubs \in DistinctSeqs(ManualSources \cup HttpSources, MaxSubs)
    /\ prependSubName \in BOOLEAN
    /\ prependedContent \in {<<>>, <<FakeNode>>}
    /\ outcome \in [HttpIds -> Outcomes]
    /\ \A id \in HttpIds \ {s.id : s \in SeqToSet(misubs)} : outcome[id] = NoOutcome
    /\ aggpc = "start"
    /\ manualNodes = <<>>
    /\ fstate = <<>>
    /\ settled = <<>>
    /\ now = 0
    /\ output = <<>>
    /\ run = "first"
    /\ firstOutput = [pc |-> "none", lines |-> <<>>]

\* lines 471-482: the manual pipeline, then every fetch is issued
StartAgg ==
    /\ aggpc = "start"
    /\ IF ManualThrows(misubs, prependSubName)
       THEN /\ aggpc' = "threw"
            /\ UNCHANGED <<manualNodes, fstate>>
       ELSE /\ aggpc' = "fetching"
            /\ manualNodes' = processedManualNodes(misubs, prependSubName)
            /\ fstate' = [i \in HttpIdx |-> "pending"]
    /\ UNCHANGED <<misubs, prependSubName, prependedContent, outcome, settled,
                   now, output, run, firstOutput>>
    /\ UNCHANGED reqVars
    /\ UNCHANGED callVars
    /\ UNCHANGED sideVars
    /\ UNCHANGED opsVars

Settle(i) ==
    /\ fstate' = [fstate EXCEPT ![i] = "settled"]
    /\ settled' = Append(settled,
           [idx |-> i,
            content |-> SubContent(httpSubs[i], OutcomeOf(i), prependSubName)])

\* the fetch rejects, or resolves with a non-OK status, before the deadline
FetchSettles(i) ==
    /\ aggpc = "fetching" /\ fstate[i] = "pending"
    /\ now < FetchTimeoutMs
    /\ OutcomeOf(i).kind \in {"neterr", "nonok"}
    /\ Settle(i)
    /\ UNCHANGED <<misubs, prependSubName, prependedContent, outcome, aggpc,
                   manualNodes, now, output, run, firstOutput>>
    /\ UNCHANGED reqVars
    /\ UNCHANGED callVars
    /\ UNCHANGED sideVars
    /\ UNCHANGED opsVars

\* the fetch resolves with an OK response: the callback awaits response.text()
ResponseArrives(i) ==
    /\ aggpc = "fetching" /\ fstate[i] = "pending"
    /\ now < FetchTimeoutMs
    /\ OutcomeOf(i).kind \in {"ok", "bodyerr"}
    /\ fstate' = [fstate EXCEPT ![i] = "body"]
    /\ UNCHANGED <<misubs, prependSubName, prependedContent, outcome, aggpc,
                   manualNodes, settled, now, output, run, firstOutput>>
    /\ UNCHANGED reqVars
    /\ UNCHANGED callVars
    /\ UNCHANGED sideVars
    /\ UNCHANGED opsVars

\* response.text() resolves or rejects, at any time: no timer races it
BodyRead(i) ==
    /\ aggpc = "fetching" /\ fstate[i] = "body"
    /\ Settle(i)
    /\ UNCHANGED <<misubs, prependSubName, prependedContent, outcome, aggpc,
                   manualNodes, now, output, run, firstOutput>>
    /\ UNCHANGED reqVars
    /\ UNCHANGED callVars
    /\ UNCHANGED sideVars
    /\ UNCHANGED opsVars

\* time reaches the deadline of the timers; a fetch still pending then is one
\* whose response does not come in time
DeadlineReached ==
    /\ aggpc = "fetching" /\ now < FetchTimeoutMs
    /\ \A i \in HttpIdx : fstate[i] = "pending" => OutcomeOf(i).kind = "timeout"
    /\ now' = FetchTimeoutMs
    /\ UNCHANGED <<misubs, prependSubName, prependedContent, outcome, aggpc,
                   manualNodes, fstate, settled, output, run, firstOutput>>
    /\ UNCHANGED reqVars
    /\ UNCHANGED callVars
    /\ UNCHANGED sideVars
    /\ UNCHANGED opsVars

\* the timer of the race rejects it with 'Request timed out'
TimerFires(i) ==
    /\ aggpc = "fetching" /\ fstate[i] = "pending"
    /\ now >= FetchTimeoutMs
    /\ Settle(i)
    /\ UNCHANGED <<misubs, prependSubName, prependedContent, outcome, aggpc,
                   manualNodes, now, output, run, firstOutput>>
    /\ UNCHANGED reqVars
    /\ UNCHANGED callVars
    /\ UNCHANGED sideVars
    /\ UNCHANGED opsVars

\* lines 577-584, once Promise.all resolved
Combine ==
    /\ aggpc = "fetching"
    /\ \A i \in HttpIdx : fstate[i] = "settled"
    /\ output' = CombineContents(manualNodes, PromiseAll(settled), prependedContent)
    /\ aggpc' = "done"
    /\ UNCHANGED <<misubs, prependSubName, prependedContent, outcome,
                   manualNodes, fstate, settled, now, run, firstOutput>>
    /\ UNCHANGED reqVars
    /\ UNCHANGED callVars
    /\ UNCHANGED sideVars
    /\ UNCHANGED opsVars

\* the aggregation is run again on the same inputs
SecondRun ==
    /\ aggpc \in {"done", "threw"} /\ run = "first"
    /\ reqpc = "none"
    /\ firstOutput' = [pc |-> aggpc, lines |-> output]
    /\ run' = "second"
    /\ aggpc' = "start"
    /\ manualNodes' = <<>> /\ fstate' = <<>> /\ settled' = <<>>
    /\ now' = 0 /\ output' = <<>>
    /\ UNCHANGED <<misubs, prependSubName, prependedContent, outcome>>
    /\ UNCHANGED reqVars
    /\ UNCHANGED callVars
    /\ UNCHANGED sideVars
    /\ UNCHANGED opsVars

AggNext ==
    \/ StartAgg
    \/ \E i \in HttpIdx : FetchSettles(i)
    \/ \E i \in HttpIdx : ResponseArrives(i)
    \/ \E i \in HttpIdx : BodyRead(i)
    \/ DeadlineReached
    \/ \E i \in HttpIdx : TimerFires(i)
    \/ Combine
    \/ SecondRun

SpecAgg == AggInit /\ [][AggNext]_vars

\* ------------------------------------------------- aggregation claims
\* the returned list without the summary node the caller passed in
NodePart(out) == SubSeq(out, Len(prependedContent) + 1, Len(out))

\* what each source of a list contributes, from the inputs alone
ManualContribution(list) == processedManualNodes(list, prependSubName)

HttpContribution(list) ==
    LET hs == HttpSubs(list)
    IN  [i \in 1..Len(hs) |-> SubContent(hs[i], outcome[hs[i].id], prependSubName)]

\* manual lines in source then line order, then each HTTP source's surviving
\* lines in source order
SeenOrder(list) == ManualContribution(list) \o Flatten(HttpContribution(list))

FirstIndex(q, x) == CHOOSE i \in 1..Len(q) : q[i] = x /\ \A j \in 1..(i - 1) : q[j] # x

NoDuplicates(q) == \A i, j \in 1..Len(q) : i # j => q[i] # q[j]

\* C1: the returned list, the summary node apart, holds exactly the lines the
\* sources contribute and lists them in first-seen order: manual lines first,
\* then the HTTP sources in source-list order, each in its line order.
C1_FirstSeenOrder ==
    aggpc = "done" =>
        LET body == NodePart(output)
            seen == SeenOrder(misubs)
        IN  /\ SeqToSet(body) = SeqToSet(seen)
            /\ \A i, j \in 1..Len(body) :
                 i < j => FirstIndex(seen, body[i]) < FirstIndex(seen, body[j])

C1_Witness ==
    /\ aggpc = "done"
    /\ Len(ManualContribution(misubs)) > 0
    /\ Len(httpSubs) = 2
    /\ settled[1].idx = 2
    /\ \A i \in HttpIdx : settled[i].content # <<>>
    /\ Len(NodePart(output)) >= 3

\* C2 as stated: the returned list holds no line twice, summary node included.
C2_NoDuplicateInOutput == aggpc = "done" => NoDuplicates(output)

\* C2 as amended: the node lines after the summary node hold no line twice,
\* and every contributed line is among them.
C2_NoDuplicateNodeLines ==
    aggpc = "done" =>
        /\ NoDuplicates(NodePart(output))
        /\ SeqToSet(NodePart(output)) = SeqToSet(SeenOrder(misubs))

C2_Witness ==
    /\ aggpc = "done"
    /\ prependedContent # <<>>
    /\ ~NoDuplicates(SeenOrder(misubs))
    /\ Len(NodePart(output)) >= 2

\* C3: a second run on the same sources, settings and fetch outcomes ends as
\* the first did, with the same list, whatever order the fetches settled in.
C3_SameOutputEveryRun ==
    (run = "second" /\ aggpc \in {"done", "threw"}) =>
        firstOutput = [pc |-> aggpc, lines |-> output]

C3_Witness ==
    /\ run = "second" /\ aggpc = "done"
    /\ Len(httpSubs) = 2
    /\ settled[1].idx = 2
    /\ settled[1].content # <<>> /\ settled[2].content # <<>>
    /\ settled[1].content # settled[2].content

FetchFailed(sub) == IsHttpSub(sub) /\ FetchFails(outcome[sub.id])

WithoutFailed(list) == SelectSeq(list, LAMBDA sub : ~FetchFailed(sub))

\* C4: an HTTP source whose fetch timed out, failed or was answered with a
\* non-OK status contributes nothing, and the list returned is the one the
\* source list without that source yields.
C4_FailedSourceAsAbsent ==
    aggpc = "done" =>
        /\ \A e \in SeqToSet(settled) :
             FetchFailed(httpSubs[e.idx]) => e.content = <<>>
        /\ output = CombineContents(ManualContribution(WithoutFailed(misubs)),
                                    HttpContribution(WithoutFailed(misubs)),
                                    prependedContent)

C4_Witness ==
    /\ aggpc = "done"
    /\ Len(httpSubs) = 2
    /\ OutcomeOf(1).kind = "nonok"
    /\ OutcomeOf(2).kind = "ok"
    /\ Len(NodePart(output)) >= 2

\* C5: once the deadline of the fetches has passed and the timers have
\* fired, every source's contribution is settled.
C5_SettledByDeadline ==
    (aggpc = "fetching" /\ now >= FetchTimeoutMs
        /\ \A i \in HttpIdx : fstate[i] # "pending")
    => \A i \in HttpIdx : fstate[i] = "settled"

\* C6: no error of one source's processing aborts the aggregation.
C6_NoSourceAbortsRun == aggpc # "threw"

\* the lines of q, each at its first occurrence only
RECURSIVE FirstOccurrences(_, _)
FirstOccurrences(q, n) ==
    IF n = 0 THEN <<>>
    ELSE FirstOccurrences(q, n - 1)
         \o (IF \A j \in 1..(n - 1) : q[j] # q[n] THEN <<q[n]>> ELSE <<>>)

Deduplicated(list) == FirstOccurrences(SeenOrder(list), Len(SeenOrder(list)))

\* C21: a summary node passed in is the first line returned and the
\* deduplicated node lines follow it in their order; when none is passed the
\* list returned is the deduplicated node lines.
C21_SummaryNodeFirst ==
    aggpc = "done" =>
        IF prependedContent # <<>>
        THEN /\ Len(output) = 1 + Len(Deduplicated(misubs))
             /\ Head(output) = FakeNode
             /\ Tail(output) = Deduplicated(misubs)
        ELSE output = Deduplicated(misubs)

C21_Witness ==
    /\ aggpc = "done"
    /\ prependedContent # <<>>
    /\ Len(Deduplicated(misubs)) >= 3
    /\ Len(Deduplicated(misubs)) < Len(SeenOrder(misubs))
    /\ Head(output) = FakeNode

\* both fetches were answered 2xx and the bodies both hold line l, a node
\* line that neither source's rules remove
BothDeliver(i, j, l) ==
    /\ i < j
    /\ \A k \in {i, j} :
         /\ OutcomeOf(k).kind = "ok"
         /\ l \in SeqToSet(DecodeBody(OutcomeOf(k).body))
         /\ IsValidNodeLine(l)
         /\ ~FilterThrows(httpSubs[k].exclude)
         /\ ApplyExclude(<<l>>, httpSubs[k].exclude) = <<l>>

\* the node of line l as the list may show it: l itself, or l under the
\* name of one of the sources
Showing(l) ==
    {l} \cup {prependNodeName(l, httpSubs[k].name) :
                k \in {h \in HttpIdx : ~PrependThrows(l, httpSubs[h].name)}}

UpTo(i) ==
    SeqToSet(ManualContribution(misubs))
    \cup UNION {SeqToSet(HttpContribution(misubs)[k]) : k \in 1..i}

Unset == "<unset>"

defaultSettings ==
    [FileName |-> "MiSub", mytoken |-> "auto", profileToken |-> "profiles",
     subConverter |-> "url.v1.mk", subConfig |-> "", prependSubName |-> TRUE,
     NotifyThresholdDays |-> 3, NotifyThresholdPercent |-> 90]

\* { ...defaultSettings, ...settings }: a stored key replaces the default
HasKey(stored, k) ==
    k \in DOMAIN stored /\ (k = "prependSubName" \/ stored[k] # Unset)

\* a mutation of Config: the spread is written the other way round,
\* { ...settings, ...defaultSettings }
ConfigDefaultsLast(stored) ==
    [k \in DOMAIN defaultSettings |-> defaultSettings[k]]

Config(stored) ==
    [k \in DOMAIN defaultSettings |->
        IF HasKey(stored, k) THEN stored[k] ELSE defaultSettings[k]]

config == Config(settingsData)

\* s.trim() === ''
IsBlank(str) == str \in {"", " "}

\* new URL(`https://${host}/sub`) throws TypeError on a host with a space
InvalidHosts == {"bad host"}

Profile(id, customId, enabled, subIds, nodeIds, subConverter) ==
    [id |-> id, customId |-> customId, enabled |-> enabled, name |-> id,
     subscriptions |-> subIds, manualNodes |-> nodeIds,
     subConverter |-> subConverter, subConfig |-> ""]

\* a mutation of ProfileMatches: the custom identifier is not looked at
ProfileMatchesIdOnly(p, identifier) == p.id = identifier

\* p.customId && p.customId === id || p.id === id
ProfileMatches(p, identifier) ==
    (p.customId # "" /\ p.customId = identifier) \/ p.id = identifier

\* allProfiles.find(...): the index of the first match, 0 when there is none
FindProfile(profiles, identifier) ==
    IF \E i \in 1..Len(profiles) : ProfileMatches(profiles[i], identifier)
    THEN CHOOSE i \in 1..Len(profiles) :
           /\ ProfileMatches(profiles[i], identifier)
           /\ \A j \in 1..(i - 1) : ~ProfileMatches(profiles[j], identifier)
    ELSE 0

\* item.url.startsWith('http'), the scope filter's test
UrlStartsWithHttp(item) == item.kind = "http"

\* lines 629-634
ProfileScope(stored, profile) ==
    SelectSeq(stored, LAMBDA item :
        IF UrlStartsWithHttp(item)
        THEN item.enabled /\ item.id \in profile.subscriptions
        ELSE item.enabled /\ item.id \in profile.manualNodes)

\* a mutation of EnabledSubs: disabled sources are in scope too
EnabledSubsAndDisabled(stored) == stored

\* line 644: allMisubs.filter(s => s.enabled)
EnabledSubs(stored) == SelectSeq(stored, LAMBDA sub : sub.enabled)

\* a mutation of TokenRejected: the global token opens profiles too
TokenRejectedUnlessGlobal(token, expected) ==
    token = "" \/ (token # expected /\ token # config.mytoken)

\* !token || token !== expected
TokenRejected(token, expected) == token = "" \/ token # expected

ErrorResponse(status) ==
    [status |-> status, kind |-> "error", lines |-> <<>>, detail |-> <<>>]

\* lines 597-651: what the request resolves to before any outbound call
Resolve ==
    IF request.profileIdentifier # ""
    THEN IF TokenRejected(request.token, config.profileToken)
         THEN [status |-> 403, scope |-> <<>>, eff |-> NoEffective]
         ELSE LET k == FindProfile(allProfiles, request.profileIdentifier)
              IN  IF k # 0 /\ allProfiles[k].enabled
                  THEN LET profile == allProfiles[k]
                       IN  [status |-> 200,
                            scope |-> ProfileScope(allMisubs, profile),
                            eff |-> [subConverter |->
                                        IF ~IsBlank(profile.subConverter)
                                        THEN profile.subConverter
                                        ELSE config.subConverter,
                                     subConfig |->
                                        IF ~IsBlank(profile.subConfig)
                                        THEN profile.subConfig
                                        ELSE config.subConfig,
                                     subName |-> profile.name]]
                  ELSE [status |-> 404, scope |-> <<>>, eff |-> NoEffective]
    ELSE IF TokenRejected(request.token, config.mytoken)
         THEN [status |-> 403, scope |-> <<>>, eff |-> NoEffective]
         ELSE [status |-> 200,
               scope |-> EnabledSubs(allMisubs),
               eff |-> [subConverter |-> config.subConverter,
                        subConfig |-> config.subConfig,
                        subName |-> config.FileName]]

\* lines 3-6
OLD_KV_KEY == "misub_data_v1"

KV_KEY_SUBS == "misub_subscriptions_v1"

KV_KEY_PROFILES == "misub_profiles_v1"

KV_KEY_SETTINGS == "worker_settings_v1"

\* the operations on env.MISUB_KV, as kvLog records them
KvGet(key) == [op |-> "get", key |-> key]

KvPut(key) == [op |-> "put", key |-> key]

KvDelete(key) == [op |-> "delete", key |-> key]

\* lines 587-651: the three records are read (592-596); targetMisubs and the
\* effective converter values are assigned (631-646) before the converter is
\* tested (649)
ResolveScope ==
    /\ reqpc = "start"
    /\ LET r == Resolve
       IN  IF r.status # 200
           THEN /\ response' = ErrorResponse(r.status)
                /\ reqpc' = "responded"
                /\ UNCHANGED <<targetMisubs, effective>>
           ELSE /\ targetMisubs' = r.scope
                /\ effective' = r.eff
                /\ IF IsBlank(r.eff.subConverter)
                   THEN /\ response' = ErrorResponse(500)
                        /\ reqpc' = "responded"
                   ELSE /\ reqpc' = "resolved"
                        /\ UNCHANGED response
    /\ kvLog' = kvLog \o <<KvGet(KV_KEY_SETTINGS), KvGet(KV_KEY_SUBS),
                            KvGet(KV_KEY_PROFILES)>>
    /\ UNCHANGED <<settingsData, allMisubs, allProfiles, request, targetFormat,
                   notifications, backendCalls>>
    /\ UNCHANGED aggVars
    /\ UNCHANGED callVars
    /\ UNCHANGED <<tg, backendReply>>
    /\ UNCHANGED opsVars

\* line 655
supportedFormats ==
    <<"clash", "singbox", "surge", "loon", "base64", "v2ray", "trojan">>

\* lines 665-672
uaMapping ==
    <<<<"flyclash", "clash">>, <<"mihomo", "clash">>, <<"clash.meta", "clash">>,
      <<"clash-verge", "clash">>, <<"meta", "clash">>, <<"stash", "clash">>,
      <<"nekoray", "clash">>, <<"sing-box", "singbox">>,
      <<"shadowrocket", "base64">>, <<"v2rayn", "base64">>,
      <<"v2rayng", "base64">>, <<"surge", "surge">>, <<"loon", "loon">>,
      <<"quantumult%20x", "quanx">>, <<"quantumult", "quanx">>,
      <<"clash", "clash">>>>

\* A User-Agent is a sequence of words. userAgentHeader.toLowerCase() on the
\* words of this model:
LowerUaWord(w) ==
    CASE w = "Shadowrocket" -> "shadowrocket"
      [] w = "v2rayNG" -> "v2rayng"
      [] w = "Surge" -> "surge"
      [] w = "Quantumult%20X" -> "quantumult%20x"
      [] w = "Mozilla" -> "mozilla"
      [] w = "Unknown" -> "unknown"
      [] OTHER -> w

\* the keywords of uaMapping that occur in a lower-case word
KeywordsIn(w) ==
    CASE w = "clash-verge" -> {"clash-verge", "clash"}
      [] w = "clash.meta" -> {"clash.meta", "meta", "clash"}
      [] w = "metadata" -> {"meta"}
      [] w = "v2rayng" -> {"v2rayn", "v2rayng"}
      [] w = "quantumult%20x" -> {"quantumult%20x", "quantumult"}
      [] w \in {"shadowrocket", "surge", "loon", "sing-box", "clash"} -> {w}
      [] OTHER -> {}

\* ua.includes(keyword), ua the lower-cased header
UaIncludes(ua, keyword) ==
    \E i \in 1..Len(ua) : keyword \in KeywordsIn(LowerUaWord(ua[i]))

\* the first index of a sequence that satisfies Test: the break of the loops
FirstIndexWhere(q, Test(_)) ==
    CHOOSE i \in 1..Len(q) : Test(q[i]) /\ \A j \in 1..(i - 1) : ~Test(q[j])

\* a mutation of SelectTarget: the User-Agent is consulted before the flags
SelectTargetUaFirst(req) ==
    IF req.target # "" THEN req.target
    ELSE IF \E i \in 1..Len(uaMapping) : UaIncludes(req.ua, uaMapping[i][1])
    THEN uaMapping[FirstIndexWhere(uaMapping,
                       LAMBDA m : UaIncludes(req.ua, m[1]))][2]
    ELSE IF \E i \in 1..Len(supportedFormats) : supportedFormats[i] \in SeqToSet(req.flags)
    THEN LET format == supportedFormats[FirstIndexWhere(supportedFormats,
                                            LAMBDA f : f \in SeqToSet(req.flags))]
         IN  IF format \in {"v2ray", "trojan"} THEN "base64" ELSE format
    ELSE "clash"

\* lines 653-680: req.target is the target parameter ("" when absent or
\* empty), req.flags the names of the other query parameters in the order of
\* the query, req.ua the User-Agent
SelectTarget(req) ==
    IF req.target # "" THEN req.target
    ELSE IF \E i \in 1..Len(supportedFormats) : supportedFormats[i] \in SeqToSet(req.flags)
    THEN LET format == supportedFormats[FirstIndexWhere(supportedFormats,
                                            LAMBDA f : f \in SeqToSet(req.flags))]
         IN  IF format \in {"v2ray", "trojan"} THEN "base64" ELSE format
    ELSE IF \E i \in 1..Len(uaMapping) : UaIncludes(req.ua, uaMapping[i][1])
    THEN uaMapping[FirstIndexWhere(uaMapping,
                       LAMBDA m : UaIncludes(req.ua, m[1]))][2]
    ELSE "clash"

\* line 32: !settings.BotToken || !settings.ChatID
TgSkipped(settings) ==
    settings.BotToken \in {Unset, ""} \/ settings.ChatID \in {Unset, ""}

\* lines 653-686: the target is chosen and the notification handed to
\* context.waitUntil, not awaited
SelectTargetAndNotify ==
    /\ reqpc = "resolved"
    /\ targetFormat' = SelectTarget(request)
    /\ notifications' = notifications + 1
    /\ tg' = IF TgSkipped(settingsData) THEN "false" ELSE "pending"
    /\ reqpc' = "notified"
    /\ UNCHANGED <<settingsData, allMisubs, allProfiles, request, targetMisubs,
                   effective, backendCalls, response>>
    /\ UNCHANGED aggVars
    /\ UNCHANGED callVars
    /\ UNCHANGED <<kvLog, backendReply>>
    /\ UNCHANGED opsVars

\* lines 47-64: what the fetch of the Telegram API can meet. "nonokBody" is a
\* non-2xx reply whose body is not JSON, so that response.json() rejects
TgOutcomes == {"ok", "nonok", "nonokBody", "neterr"}

\* a mutation of TgResult: response.json() is read outside the try
TgResultJsonUnguarded(o) ==
    CASE o = "ok" -> "true"
      [] o = "nonokBody" -> "raised"
      [] OTHER -> "false"

\* lines 47-64: the value sendTgNotification resolves to; "raised" would be a
\* rejection, which no path of the function produces
TgResult(o) == IF o = "ok" THEN "true" ELSE "false"

\* lines 47-64: the dispatched notification settles, whenever it does; a
\* notification that hangs never takes this step
NotificationSettles(o) ==
    /\ tg = "pending"
    /\ tg' = TgResult(o)
    /\ UNCHANGED <<kvLog, backendReply>>
    /\ UNCHANGED opsVars
    /\ UNCHANGED aggVars
    /\ UNCHANGED reqVars
    /\ UNCHANGED callVars

RECURSIVE TotalRemaining(_)
TotalRemaining(subs) ==
    IF subs = <<>> THEN 0
    ELSE (IF Head(subs).enabled THEN Head(subs).remaining ELSE 0)
         + TotalRemaining(Tail(subs))

\* lines 688-701
fakeNodeString(subs) == IF TotalRemaining(subs) > 0 THEN <<FakeNode>> ELSE <<>>

\* line 703: generateCombinedNodeList is entered
CallAggregator ==
    /\ reqpc = "notified"
    /\ misubs' = targetMisubs
    /\ prependSubName' = config.prependSubName
    /\ prependedContent' = fakeNodeString(targetMisubs)
    /\ aggpc' = "start"
    /\ reqpc' = "aggregating"
    /\ UNCHANGED <<outcome, manualNodes, fstate, settled, now, output, run,
                   firstOutput>>
    /\ UNCHANGED <<settingsData, allMisubs, allProfiles, request, targetMisubs,
                   effective, targetFormat, notifications, backendCalls, response>>
    /\ UNCHANGED callVars
    /\ UNCHANGED sideVars
    /\ UNCHANGED opsVars

\* the rejection of generateCombinedNodeList leaves handleMisubRequest: no
\* try encloses line 703
AggregatorRejects ==
    /\ reqpc = "aggregating" /\ aggpc = "threw"
    /\ reqpc' = "crashed"
    /\ UNCHANGED <<settingsData, allMisubs, allProfiles, request, targetMisubs,
                   effective, targetFormat, notifications, backendCalls, response>>
    /\ UNCHANGED aggVars
    /\ UNCHANGED callVars
    /\ UNCHANGED sideVars
    /\ UNCHANGED opsVars

\* lines 706-709
RespondBase64 ==
    /\ reqpc = "aggregating" /\ aggpc = "done"
    /\ targetFormat = "base64"
    /\ response' = [status |-> 200, kind |-> "list", lines |-> output,
                     detail |-> <<>>]
    /\ reqpc' = "responded"
    /\ UNCHANGED <<settingsData, allMisubs, allProfiles, request, targetMisubs,
                   effective, targetFormat, notifications, backendCalls>>
    /\ UNCHANGED aggVars
    /\ UNCHANGED callVars
    /\ UNCHANGED sideVars
    /\ UNCHANGED opsVars

\* lines 711-726: the backend URL is built, outside the try, and fetched
CallBackend ==
    /\ reqpc = "aggregating" /\ aggpc = "done"
    /\ targetFormat # "base64"
    /\ IF effective.subConverter \in InvalidHosts
       THEN /\ reqpc' = "crashed"
            /\ UNCHANGED backendCalls
       ELSE /\ reqpc' = "backend"
            /\ backendCalls' = backendCalls + 1
    /\ UNCHANGED <<settingsData, allMisubs, allProfiles, request, targetMisubs,
                   effective, targetFormat, notifications, response>>
    /\ UNCHANGED aggVars
    /\ UNCHANGED callVars
    /\ UNCHANGED sideVars
    /\ UNCHANGED opsVars

\* what the fetch of line 723 and the body reads of lines 728 and 731 can
\* do: "neterr" is a rejected fetch, "okBodyLost" and "non2xxBodyLost" a
\* response whose body cannot be read
BackendOutcomes == {"ok", "okBodyLost", "non2xx", "non2xxBodyLost", "neterr"}

\* subconverterResponse.status and the text of the body, for a non-2xx reply
BackendStatus == "503"

BackendBody == "no such config"

\* error.message at line 739: the message built at line 729, or the message
\* of the rejected fetch or body read
BackendErrorMessage(b) ==
    IF b = "non2xx" THEN <<"status", BackendStatus, "Body", BackendBody>>
    ELSE <<"fetch failed">>

\* a mutation of BackendReplies: a non-2xx reply is passed on like any other
BackendRepliesPassThrough(b) ==
    /\ reqpc = "backend"
    /\ response' = IF b \in {"ok", "non2xx"}
                   THEN [status |-> IF b = "ok" THEN 200 ELSE 503,
                         kind |-> "converted", lines |-> output,
                         detail |-> <<>>]
                   ELSE [status |-> 502, kind |-> "backendError",
                         lines |-> <<>>,
                         detail |-> IF b = "non2xx"
                                    THEN <<"status", BackendStatus, "Body",
                                           BackendBody>>
                                    ELSE <<"fetch failed">>]
    /\ backendReply' = b
    /\ reqpc' = "responded"
    /\ UNCHANGED <<settingsData, allMisubs, allProfiles, request, targetMisubs,
                   effective, targetFormat, notifications, backendCalls>>
    /\ UNCHANGED aggVars
    /\ UNCHANGED callVars
    /\ UNCHANGED <<tg, kvLog>>
    /\ UNCHANGED opsVars

\* lines 721-740
BackendReplies(b) ==
    /\ reqpc = "backend"
    /\ response' = IF b = "ok"
                   THEN [status |-> 200, kind |-> "converted", lines |-> output,
                         detail |-> <<>>]
                   ELSE [status |-> 502, kind |-> "backendError",
                         lines |-> <<>>, detail |-> BackendErrorMessage(b)]
    /\ backendReply' = b
    /\ reqpc' = "responded"
    /\ UNCHANGED <<settingsData, allMisubs, allProfiles, request, targetMisubs,
                   effective, targetFormat, notifications, backendCalls>>
    /\ UNCHANGED aggVars
    /\ UNCHANGED callVars
    /\ UNCHANGED <<tg, kvLog>>
    /\ UNCHANGED opsVars

\* ------------------------------------------- inputs of the request model
MaxProfiles == 2

StoredSettings ==
    [mytoken : {"gtok"}, profileToken : {Unset, "ptok"},
     subConverter : {Unset, "", "bad host"}, subConfig : {Unset},
     prependSubName : BOOLEAN, BotToken : {Unset}, ChatID : {Unset}]

\* the stored list: m1 and h1 may be disabled
StoredLists ==
    {<<[m1 EXCEPT !.enabled = em], [h1 EXCEPT !.enabled = eh], h2, m2>> :
        em \in BOOLEAN, eh \in BOOLEAN,
        m1 \in {s \in ManualSources : s.id = "m1"},
        m2 \in {s \in ManualSources : s.id = "m2"},
        h1 \in {s \in HttpSources : s.id = "h1"},
        h2 \in {s \in HttpSources : s.id = "h2"}}

\* "vip" is the custom identifier of p1 and the primary id of another profile;
\* "gone" is the id of a source deleted since
ProfilePool ==
    {Profile("p1", "vip", TRUE, {"h1", "h2", "gone"}, {"m1"}, ""),
     Profile("p1", "vip", FALSE, {"h1", "h2", "gone"}, {"m1"}, ""),
     Profile("vip", "", TRUE, {"h1", "m2"}, {"m2", "h2"}, " ")}

Requests ==
    {r \in [token : {"", "gtok", "ptok", "profiles"},
            profileIdentifier : {"", "p1", "vip", "nope"},
            target : {"base64", "clash"}, flags : {<<>>},
            ua : {<<"Unknown">>}] :
        r.profileIdentifier # "" => r.token # ""}

RequestOutcomes ==
    {o \in [HttpIds -> Outcomes] :
        /\ o["h1"].kind \in {"ok", "nonok", "timeout"}
        /\ o["h1"].body.wrap = "plain"
        /\ o["h2"].kind = "ok" /\ o["h2"].body.wrap = "b64"}

ReqInit ==
    /\ CallIdle
    /\ SideIdle
    /\ OpsIdle
    /\ settingsData \in StoredSettings
    /\ allMisubs \in StoredLists
    /\ allProfiles \in DistinctSeqs(ProfilePool, MaxProfiles)
    /\ request \in Requests
    /\ outcome \in RequestOutcomes
    /\ reqpc = "start"
    /\ targetMisubs = <<>>
    /\ effective = NoEffective
    /\ targetFormat = ""
    /\ notifications = 0
    /\ backendCalls = 0
    /\ response = NoResponse
    /\ misubs = <<>>
    /\ prependSubName = FALSE
    /\ prependedContent = <<>>
    /\ aggpc = "idle"
    /\ manualNodes = <<>>
    /\ fstate = <<>>
    /\ settled = <<>>
    /\ now = 0
    /\ output = <<>>
    /\ run = "first"
    /\ firstOutput = [pc |-> "none", lines |-> <<>>]

ReqNext ==
    \/ ResolveScope
    \/ SelectTargetAndNotify
    \/ CallAggregator
    \/ StartAgg
    \/ \E i \in HttpIdx : FetchSettles(i)
    \/ \E i \in HttpIdx : ResponseArrives(i)
    \/ \E i \in HttpIdx : BodyRead(i)
    \/ DeadlineReached
    \/ \E i \in HttpIdx : TimerFires(i)
    \/ Combine
    \/ AggregatorRejects
    \/ RespondBase64
    \/ CallBackend
    \/ \E b \in BackendOutcomes : BackendReplies(b)

SpecReq == ReqInit /\ [][ReqNext]_vars

\* ----------------------------------------------------- request claims
Finished == reqpc \in {"responded", "crashed"}

\* no source was fetched, no notification dispatched, no backend contacted
NothingSent ==
    /\ aggpc = "idle" /\ fstate = <<>> /\ settled = <<>>
    /\ notifications = 0
    /\ backendCalls = 0

\* C7: a finished request has answered 403, 404 or 502, or has returned the
\* aggregated list or the backend's converted text.
C7_OnlyThreeErrors ==
    Finished =>
        /\ reqpc = "responded"
        /\ \/ response.status \in {403, 404, 502}
           \/ response.status = 200 /\ response.kind \in {"list", "converted"}

\* the profile a request names: the first of the stored list whose custom
\* identifier or primary id is the identifier
NamesProfile(i) ==
    /\ i \in 1..Len(allProfiles)
    /\ \/ allProfiles[i].customId = request.profileIdentifier
       \/ allProfiles[i].id = request.profileIdentifier
    /\ \A j \in 1..(i - 1) :
         /\ allProfiles[j].customId # request.profileIdentifier
         /\ allProfiles[j].id # request.profileIdentifier

\* C8: for an accepted profile request the sources in scope are the enabled
\* stored sources whose id is in the profile's subscription ids (HTTP sources,
\* as the aggregator tells them) or manual-node ids (manual sources).
C8_ProfileScopeExact ==
    (reqpc = "resolved" /\ request.profileIdentifier # "") =>
        \E i \in 1..Len(allProfiles) :
            /\ NamesProfile(i)
            /\ targetMisubs = SelectSeq(allMisubs, LAMBDA sub :
                 /\ sub.enabled
                 /\ IF IsHttpSub(sub)
                    THEN sub.id \in allProfiles[i].subscriptions
                    ELSE sub.id \in allProfiles[i].manualNodes)

ProfileTokenWrong ==
    /\ request.profileIdentifier # ""
    /\ request.token # config.profileToken

\* C9: a profile request whose token is not the profile token is answered
\* 403, whether the profile exists or not, and nothing is fetched, notified
\* or converted for it.
C9_ProfileTokenRequired ==
    ProfileTokenWrong =>
        /\ reqpc = "start" \/ (reqpc = "responded" /\ response.status = 403)
        /\ NothingSent

C9_Witness ==
    /\ ProfileTokenWrong
    /\ request.token = config.mytoken
    /\ \E i \in 1..Len(allProfiles) : NamesProfile(i) /\ allProfiles[i].enabled
    /\ reqpc = "responded" /\ response.status = 403

NoEnabledProfileNamed ==
    \A i \in 1..Len(allProfiles) : NamesProfile(i) => ~allProfiles[i].enabled

\* C10: a profile request with the profile token is answered 404, not 403,
\* when no stored profile is named by the identifier or the one named is
\* disabled, and no source is fetched for it.
C10_UnknownProfileNotFound ==
    (/\ request.profileIdentifier # ""
     /\ request.token = config.profileToken
     /\ NoEnabledProfileNamed) =>
        /\ reqpc = "start" \/ (reqpc = "responded" /\ response.status = 404)
        /\ NothingSent

C10_Witness ==
    /\ request.token = config.profileToken
    /\ request.profileIdentifier = "vip"
    /\ Len(allProfiles) = 2
    /\ ~allProfiles[1].enabled /\ allProfiles[1].customId = "vip"
    /\ allProfiles[2].enabled /\ allProfiles[2].id = "vip"
    /\ reqpc = "responded" /\ response.status = 404

\* ------------------------------------- scope resolution on its own
\* handleMisubRequest up to line 651, over wider settings, tokens and profile
\* overrides than the full request model affords
AggregatorIdle ==
    /\ misubs = <<>>
    /\ prependSubName = FALSE
    /\ prependedContent = <<>>
    /\ outcome = [id \in HttpIds |-> NoOutcome]
    /\ aggpc = "idle"
    /\ manualNodes = <<>>
    /\ fstate = <<>>
    /\ settled = <<>>
    /\ now = 0
    /\ output = <<>>
    /\ run = "first"
    /\ firstOutput = [pc |-> "none", lines |-> <<>>]

ResolveSettings ==
    [mytoken : {Unset, "", "gtok"}, profileToken : {Unset, "ptok"},
     subConverter : {Unset, "", " ", "gconv"}, subConfig : {Unset, "gcfg"},
     prependSubName : {TRUE}, BotToken : {Unset}, ChatID : {Unset}]

\* one profile per pair of overrides: none, whitespace only, a value
ResolveProfiles ==
    {[Profile("p1", "", TRUE, {"h1"}, {"m1"}, c) EXCEPT !.subConfig = f] :
        c \in {"", " ", "pconv"}, f \in {"", " ", "pcfg"}}

ResolveRequests ==
    [token : {"", "auto", "gtok", "ptok", "profiles"},
     profileIdentifier : {"", "p1"}, target : {"clash"}, flags : {<<>>},
     ua : {<<"Unknown">>}]

ResolveInit ==
    /\ AggregatorIdle
    /\ CallIdle
    /\ SideIdle
    /\ OpsIdle
    /\ settingsData \in ResolveSettings
    /\ allMisubs \in StoredLists
    /\ allProfiles \in {<<p>> : p \in ResolveProfiles}
    /\ request \in ResolveRequests
    /\ reqpc = "start"
    /\ targetMisubs = <<>>
    /\ effective = NoEffective
    /\ targetFormat = ""
    /\ notifications = 0
    /\ backendCalls = 0
    /\ response = NoResponse

SpecResolve == ResolveInit /\ [][ResolveScope]_vars

\* the access token in force: the stored one, 'auto' when none is stored
AccessToken ==
    IF settingsData.mytoken # Unset THEN settingsData.mytoken
    ELSE defaultSettings.mytoken

\* the request was let through the token and profile checks
Accepted == reqpc # "start" /\ response.status \notin {403, 404}

\* C11: a request without profile identifier is answered 403 unless its token
\* is the access token; a request with the access token is let through, and
\* then the sources in scope are the enabled stored sources, all of them and
\* in stored order, with the global converter backend and config in effect.
C11_GlobalTokenAndScope ==
    (request.profileIdentifier = "" /\ reqpc # "start") =>
        /\ request.token # AccessToken =>
              reqpc = "responded" /\ response.status = 403
        /\ (request.token = AccessToken /\ request.token # "") => Accepted
        /\ Accepted =>
              /\ Len(targetMisubs) = Cardinality({i \in 1..Len(allMisubs) :
                                                    allMisubs[i].enabled})
              /\ \E f \in [1..Len(targetMisubs) -> 1..Len(allMisubs)] :
                    /\ \A i \in 1..Len(targetMisubs) :
                          /\ targetMisubs[i] = allMisubs[f[i]]
                          /\ allMisubs[f[i]].enabled
                    /\ \A i, j \in 1..Len(targetMisubs) : i < j => f[i] < f[j]
              /\ effective.subConverter = config.subConverter
              /\ effective.subConfig = config.subConfig

C11_Witness ==
    /\ request.profileIdentifier = "" /\ request.token = "auto"
    /\ settingsData.mytoken = Unset
    /\ reqpc = "resolved"
    /\ \E i \in 1..Len(allMisubs) : ~allMisubs[i].enabled
    /\ Len(targetMisubs) = 3

\* what the layers give for a converter key and the overrides of a profile
Layered(k, ownValue) ==
    IF ownValue \notin {"", " "} THEN ownValue
    ELSE IF settingsData[k] # Unset THEN settingsData[k]
    ELSE defaultSettings[k]

\* C12: for an accepted profile request the converter backend and the
\* converter config in effect are the profile's own value when it is not
\* empty after trimming, else the stored setting, else the built-in default;
\* an empty or whitespace-only override never replaces the global value.
C12_LayeredConfig ==
    (request.profileIdentifier # "" /\ Accepted) =>
        \E i \in 1..Len(allProfiles) :
            /\ NamesProfile(i)
            /\ effective.subConverter =
                  Layered("subConverter", allProfiles[i].subConverter)
            /\ effective.subConfig =
                  Layered("subConfig", allProfiles[i].subConfig)

C12_Witness ==
    /\ request.profileIdentifier = "p1" /\ reqpc = "resolved"
    /\ allProfiles[1].subConverter = " " /\ allProfiles[1].subConfig = "pcfg"
    /\ settingsData.subConverter = "gconv" /\ settingsData.subConfig = "gcfg"
    /\ effective.subConverter = "gconv" /\ effective.subConfig = "pcfg"

\* --------------------------------------- the transforms on their own
\* The line transforms, the filter and the body decoding of
\* generateCombinedNodeList, each called on inputs drawn from the pools below.
MaxRules == 2

\* lines 503-571 for one source: the lines kept, or thrown when new RegExp
\* throws (the callback's catch then returns '')
FilterResult(lines, rules) ==
    IF FilterThrows(rules) THEN [NoResult EXCEPT !.thrown = TRUE]
    ELSE [NoResult EXCEPT !.lines = ApplyExclude(lines, rules)]

ApplyFilter ==
    /\ callpc = "input" /\ arg.op = "filter"
    /\ res' = FilterResult(arg.lines, arg.rules)
    /\ callpc' = "once"
    /\ UNCHANGED arg
    /\ UNCHANGED <<aggVars, reqVars, sideVars>>
    /\ UNCHANGED opsVars

RulePool ==
    {ProtoRule(FALSE, {"ss", "SSR"}), ProtoRule(TRUE, {"Vless"}),
     NameRule(FALSE, <<"a">>), NameRule(TRUE, <<"A">>), NameRule(TRUE, <<>>),
     NameRule(FALSE, BadPattern), NameRule(TRUE, <<"b", " ">>)}

lnSSR == MkLine("ssr", "nodeC", FALSE, <<>>)
lnVlessEscaped == MkLine("vless", "nodeD", TRUE, <<"%61">>)
lnTrojanUnnamed == MkLine("trojan", "nodeE", TRUE, <<>>)
lnTrojanSpaced == MkLine("trojan", "nodeF", TRUE, <<"b", "%20", "A">>)

FilterLines ==
    <<lnSS, lnSSR, lnVless, lnTrojan, lnBadPct, lnVlessEscaped, lnVmessCompact,
      lnTrojanUnnamed, lnTrojanSpaced>>

FilterArgs ==
    {[op |-> "filter", line |-> NoLine, prefix |-> <<>>, lines |-> FilterLines,
      rules |-> r, body |-> NoBody] : r \in DistinctSeqs(RulePool, MaxRules)}

\* prependNodeName(arg.line, arg.prefix)
ApplyPrepend ==
    /\ callpc = "input" /\ arg.op = "prepend"
    /\ res' = IF PrependThrows(arg.line, arg.prefix)
              THEN [NoResult EXCEPT !.thrown = TRUE]
              ELSE [NoResult EXCEPT
                      !.first = prependNodeName(arg.line, arg.prefix),
                      !.line = prependNodeName(arg.line, arg.prefix)]
    /\ callpc' = "once"
    /\ UNCHANGED arg
    /\ UNCHANGED <<aggVars, reqVars, sideVars>>
    /\ UNCHANGED opsVars

\* prependNodeName(prependNodeName(arg.line, arg.prefix), arg.prefix): the
\* outer call is made on what the inner one returned, and is not made when
\* the inner one raised
ApplyPrependAgain ==
    /\ callpc = "once" /\ arg.op = "prepend"
    /\ res' = IF res.thrown THEN res
              ELSE IF PrependThrows(res.first, arg.prefix)
              THEN [res EXCEPT !.thrown = TRUE, !.line = NoLine]
              ELSE [res EXCEPT !.line = prependNodeName(res.first, arg.prefix)]
    /\ callpc' = "twice"
    /\ UNCHANGED arg
    /\ UNCHANGED <<aggVars, reqVars, sideVars>>
    /\ UNCHANGED opsVars

\* lines 471-481 on a manual source holding arg.line, prependSubName on
ProcessManual ==
    /\ callpc = "input" /\ arg.op = "manual"
    /\ LET stored == <<Source("m", "manual", <<arg.line>>, <<>>, <<>>, TRUE, 0)>>
       IN  res' = IF ManualThrows(stored, TRUE)
                  THEN [NoResult EXCEPT !.thrown = TRUE]
                  ELSE [NoResult EXCEPT
                          !.lines = processedManualNodes(stored, TRUE)]
    /\ callpc' = "once"
    /\ UNCHANGED arg
    /\ UNCHANGED <<aggVars, reqVars, sideVars>>
    /\ UNCHANGED opsVars

\* normalizeVmessLink(arg.line); it has a catch of its own and never raises
ApplyNormalize ==
    /\ callpc = "input" /\ arg.op = "normalize"
    /\ res' = [NoResult EXCEPT !.first = normalizeVmessLink(arg.line),
                               !.line = normalizeVmessLink(arg.line)]
    /\ callpc' = "once"
    /\ UNCHANGED arg
    /\ UNCHANGED <<aggVars, reqVars, sideVars>>
    /\ UNCHANGED opsVars

\* normalizeVmessLink(normalizeVmessLink(arg.line))
ApplyNormalizeAgain ==
    /\ callpc = "once" /\ arg.op = "normalize"
    /\ res' = [res EXCEPT !.line = normalizeVmessLink(res.first)]
    /\ callpc' = "twice"
    /\ UNCHANGED arg
    /\ UNCHANGED <<aggVars, reqVars, sideVars>>
    /\ UNCHANGED opsVars

\* fragments: none, empty, a name, a name that starts with the prefix "A",
\* an escaped name, escapes decodeURIComponent rejects, the manual label
Fragments ==
    {[hasFrag |-> FALSE, frag |-> <<>>],
     [hasFrag |-> TRUE, frag |-> <<>>],
     [hasFrag |-> TRUE, frag |-> <<"a">>],
     [hasFrag |-> TRUE, frag |-> <<"A", "%20", "-", "%20", "a">>],
     [hasFrag |-> TRUE, frag |-> <<"%61", "%20", "b">>],
     [hasFrag |-> TRUE, frag |-> <<"%ZZ">>],
     [hasFrag |-> TRUE, frag |-> <<"a", "%">>],
     [hasFrag |-> TRUE, frag |-> <<"%E6">>]}

FragmentLines ==
    {MkLine(sch, "abc", f.hasFrag, f.frag) :
        sch \in {"ss", "trojan"}, f \in Fragments}

\* vmess payloads that parse to a node object, with and without whitespace
VmessObjects ==
    {MkVmess("cfg1", vm, ps) :
        vm \in {"spaced", "compact"},
        ps \in {<<>>, <<"a">>, <<"A">>, <<"M", " ", "-", " ", "a">>}}

\* payloads that parse to something else, or do not parse
VmessOddities ==
    {[MkVmess("cfg2", vm, <<>>) EXCEPT !.json = j, !.lit = IF j = "string" THEN 1 ELSE 0] :
        vm \in {"spaced", "compact"},
        j \in {"psNumber", "array", "null", "string"}}
    \cup {MkVmess("cfg3", vm, <<>>) : vm \in {"badjson", "badb64"}}

\* a '#...' after the payload: atob rejects the whole
VmessWithFragment ==
    {[v EXCEPT !.hasFrag = TRUE, !.frag = f] :
        v \in {MkVmess("cfg1", "compact", <<"a">>), MkVmess("cfg3", "badjson", <<>>)},
        f \in {<<"a">>, <<"A">>, <<"%ZZ">>}}

NodeLines ==
    FragmentLines \cup VmessObjects \cup VmessOddities \cup VmessWithFragment

Prefixes == {<<>>, <<"A">>, <<"M">>, <<"A", " ", "b">>}

PrependArgs ==
    {[op |-> "prepend", line |-> l, prefix |-> pre, lines |-> <<>>,
      rules |-> <<>>, body |-> NoBody] : l \in NodeLines, pre \in Prefixes}

ManualArgs ==
    {[op |-> "manual", line |-> l, prefix |-> ManualLabel, lines |-> <<>>,
      rules |-> <<>>, body |-> NoBody] : l \in NodeLines \cup {lnComment}}

NormalizeArgs ==
    {[op |-> "normalize", line |-> l, prefix |-> <<>>, lines |-> <<>>,
      rules |-> <<>>, body |-> NoBody] : l \in NodeLines \cup {lnComment}}

\* lines 490-501 on arg.body: the catch of line 501 swallows what atob
\* throws, so the step gives lines whatever the body
DecodeFetched ==
    /\ callpc = "input" /\ arg.op = "decode"
    /\ res' = [NoResult EXCEPT !.lines = DecodeBody(arg.body)]
    /\ callpc' = "once"
    /\ UNCHANGED arg
    /\ UNCHANGED <<aggVars, reqVars, sideVars>>
    /\ UNCHANGED opsVars

\* a node whose name holds a byte of another charset
lnRawName == MkLine("ss", "abc", TRUE, <<"a", "0xE3">>)

DecodeBodies ==
    {[wrap |-> "plain", lines |-> <<lnVmessSpaced, lnVless, lnSS>>],
     [wrap |-> "plain", lines |-> <<lnSS>>],
     [wrap |-> "plain", lines |-> <<>>],
     [wrap |-> "b64", lines |-> <<lnVless, lnTrojan>>],
     [wrap |-> "b64short", lines |-> <<lnSS>>],
     [wrap |-> "b64bad", lines |-> <<lnVless, lnTrojan>>],
     [wrap |-> "b64badutf8", lines |-> <<lnVless, lnRawName>>]}

DecodeArgs ==
    {[op |-> "decode", line |-> NoLine, prefix |-> <<>>, lines |-> <<>>,
      rules |-> <<>>, body |-> b] : b \in DecodeBodies}

CallArgs ==
    FilterArgs \cup PrependArgs \cup ManualArgs \cup NormalizeArgs
    \cup DecodeArgs

CallInit ==
    /\ AggregatorIdle
    /\ RequestIdle
    /\ SideIdle
    /\ OpsIdle
    /\ callpc = "input"
    /\ arg \in CallArgs
    /\ res = NoResult

CallNext ==
    \/ ApplyFilter
    \/ ApplyPrepend
    \/ ApplyPrependAgain
    \/ ProcessManual
    \/ ApplyNormalize
    \/ ApplyNormalizeAgain
    \/ DecodeFetched

SpecCall == CallInit /\ [][CallNext]_vars

\* ------------------------------------------------------ filter claims
Filtered == arg.op = "filter" /\ callpc = "once"

HasKeepRule(rules) == \E i \in 1..Len(rules) : rules[i].keep

\* the rule, read by its content alone, matches the line: the line's scheme
\* is a word of a protocol rule, or its fragment decodes to a name in which
\* the text of a name rule occurs, letter case aside
RuleHits(r, l) ==
    IF r.isProto THEN \E w \in r.protos : LowerWord(w) = l.scheme
    ELSE /\ l.hasFrag
         /\ \A i \in 1..Len(l.frag) : l.frag[i] \notin BadUnits
         /\ Contains(decodeURIComponent(l.frag), r.pat)

KeepOnly(rules) == SelectSeq(rules, LAMBDA r : r.keep)

\* C13: a rule set works in one mode: with a keep rule in it the outcome is
\* the one of its keep rules alone, whatever its other rules say; without
\* one no line is dropped unless a rule matches it.
C13_OneFilterMode ==
    Filtered =>
        IF HasKeepRule(arg.rules)
        THEN res = FilterResult(arg.lines, KeepOnly(arg.rules))
        ELSE ~res.thrown =>
               \A i \in 1..Len(arg.lines) :
                   (\A k \in 1..Len(arg.rules) : ~RuleHits(arg.rules[k], arg.lines[i]))
                       => arg.lines[i] \in SeqToSet(res.lines)

\* a deny rule matches a line the keep rule keeps, and another line that no
\* deny rule matches is dropped
C13_Witness ==
    /\ Filtered /\ ~res.thrown
    /\ arg.rules = <<ProtoRule(FALSE, {"ss", "SSR"}), NameRule(TRUE, <<"A">>)>>
    /\ lnSS \in SeqToSet(res.lines)
    /\ lnVless \notin SeqToSet(res.lines)

\* C14: in allow-list mode the lines kept are those whose scheme is a word of
\* a keep protocol rule or whose decoded fragment name matches a keep name
\* rule, one rule being enough; every other line is dropped, the order stays.
C14_AllowListKeeps ==
    (Filtered /\ ~res.thrown /\ HasKeepRule(arg.rules)) =>
        res.lines = SelectSeq(arg.lines, LAMBDA l :
            \E k \in 1..Len(arg.rules) :
                arg.rules[k].keep /\ RuleHits(arg.rules[k], l))

C14_Witness ==
    /\ Filtered
    /\ arg.rules = <<NameRule(TRUE, <<"A">>), ProtoRule(TRUE, {"Vless"})>>
    /\ res.lines = <<lnSS, lnVless, lnVlessEscaped, lnTrojanSpaced>>

\* C15: in deny-list mode the lines dropped are those whose scheme is a word
\* of a protocol rule or whose decoded fragment name matches a name rule;
\* every other line is kept as it is, in order.
C15_DenyListDrops ==
    (Filtered /\ ~res.thrown /\ ~HasKeepRule(arg.rules) /\ arg.rules # <<>>) =>
        res.lines = SelectSeq(arg.lines, LAMBDA l :
            \A k \in 1..Len(arg.rules) : ~RuleHits(arg.rules[k], l))

\* "proto:ss,SSR" and "a": the ss and ssr lines and the lines named a go
C15_Witness ==
    /\ Filtered
    /\ arg.rules = <<ProtoRule(FALSE, {"ss", "SSR"}), NameRule(FALSE, <<"a">>)>>
    /\ res.lines = <<lnVless, lnTrojan, lnVmessCompact, lnTrojanUnnamed>>

\* ------------------------------------------------- line transform claims
\* C16: prependNodeName applied to its own result, with the same prefix,
\* gives what the first application gave, for structured and fragment-based
\* lines alike, decodable or not; where the first application raises, so
\* does the double one.
C16_PrependIdempotent ==
    (arg.op = "prepend" /\ callpc = "twice") =>
        /\ res.line = res.first
        /\ res.thrown <=> PrependThrows(arg.line, arg.prefix)

\* a second application met a name that the first one had prefixed
C16_Witness ==
    /\ arg.op = "prepend" /\ callpc = "twice" /\ ~res.thrown
    /\ arg.line = MkLine("ss", "abc", TRUE, <<"%61", "%20", "b">>)
    /\ arg.prefix = <<"A", " ", "b">>
    /\ res.line # arg.line

\* C17: prependNodeName returns a line for every input line, whatever fails
\* to decode or parse in it.
C17_PrependNeverRaises ==
    (arg.op = "prepend" /\ callpc = "once") => ~res.thrown

\* the name of a fragment-based line, when its fragment decodes
HasName(l) == ~l.hasFrag \/ \A i \in 1..Len(l.frag) : l.frag[i] \notin BadUnits

NameOf(l) == IF l.hasFrag THEN decodeURIComponent(l.frag) ELSE <<>>

\* the part before the fragment, '#', and the percent-encoding of
\* "{prefix} - {original name}", or of the prefix for an empty name
Prefixed(l, prefix) ==
    [l EXCEPT !.hasFrag = TRUE,
              !.frag = encodeURIComponent(
                         IF NameOf(l) = <<>> THEN prefix
                         ELSE prefix \o <<" ", "-", " ">> \o NameOf(l))]

NotYetPrefixed(l, prefix) ==
    /\ l.scheme # "vmess" /\ HasName(l)
    /\ prefix # <<>>
    /\ ~StartsWith(NameOf(l), prefix)

\* C18: a line that is not a vmess line and whose name does not start with
\* the prefix comes back as the part before its fragment, '#', and the
\* percent-encoding of "{prefix} - {name}", or of the prefix alone when it
\* has no fragment or an empty one; with prependSubName on, the lines of a
\* manual source come back so with the manual label as prefix.
C18_FragmentPrefix ==
    /\ (arg.op = "prepend" /\ callpc = "once"
            /\ NotYetPrefixed(arg.line, arg.prefix)) =>
          ~res.thrown /\ res.line = Prefixed(arg.line, arg.prefix)
    /\ (arg.op = "manual" /\ callpc = "once"
            /\ arg.line.scheme \in ValidSchemes
            /\ NotYetPrefixed(arg.line, <<"M">>)) =>
          ~res.thrown /\ res.lines = <<Prefixed(arg.line, <<"M">>)>>

C18_Witness ==
    /\ arg.op = "manual" /\ callpc = "once"
    /\ arg.line = MkLine("ss", "abc", TRUE, <<"a">>)
    /\ res.lines = <<MkLine("ss", "abc", TRUE, <<"%E6", "%20", "-", "%20", "a">>)>>

\* C19: normalizeVmessLink applied to its own result gives that result
\* again, and it returns every line that is not a vmess line as it was.
C19_NormalizeIdempotent ==
    /\ (arg.op = "normalize" /\ callpc = "twice") => res.line = res.first
    /\ (arg.op = "normalize" /\ callpc = "once" /\ arg.line.scheme # "vmess") =>
          res.line = arg.line

\* a payload with whitespace was rewritten by the first application
C19_Witness ==
    /\ arg.op = "normalize" /\ callpc = "twice"
    /\ arg.line.scheme = "vmess" /\ arg.line.vm = "spaced"
    /\ res.first # arg.line
    /\ res.line = res.first

\* ------------------------------------------------- body decoding claim
\* the body read as the text it is: its lines when it is plain text, a line
\* of base64 characters when it is base64
AsReceived(body) == IF body.wrap = "plain" THEN body.lines ELSE <<JunkLine>>

\* C20: decoding a body never raises, and the body is read as the text
\* received when that text is 20 characters or fewer without its whitespace,
\* holds a character outside the base64 alphabet, or passes both tests and
\* then fails base64 or UTF-8 decoding.
C20_DecodeConservative ==
    (arg.op = "decode" /\ callpc = "once") =>
        /\ ~res.thrown
        /\ arg.body.wrap \in {"plain", "b64short", "b64bad", "b64badutf8"} =>
              res.lines = AsReceived(arg.body)


\* ------------------------------------------- the conversion backend
BackendFailures == {"non2xx", "okBodyLost", "non2xxBodyLost", "neterr"}

\* C23: a non-2xx reply of the conversion backend, or a failure of the request
\* to it, ends the subscription request with 502; the body of the 502 holds
\* the backend's status and body when the backend replied, and the message of
\* the failure when no reply could be read. The backend is contacted at most
\* once per request, and not at all when the target format is base64.
C23_BackendFailureIs502 ==
    /\ backendCalls <= 1
    /\ targetFormat = "base64" => backendCalls = 0
    /\ backendReply # "none" => backendCalls = 1
    /\ backendReply \in BackendFailures =>
         /\ reqpc = "responded"
         /\ response.status = 502
    /\ backendReply = "non2xx" =>
         /\ \E n \in 1..Len(response.detail) : response.detail[n] = BackendStatus
         /\ \E n \in 1..Len(response.detail) : response.detail[n] = BackendBody
    /\ backendReply \in BackendFailures \ {"non2xx"} => response.detail # <<>>

C23_Witness ==
    /\ backendReply = "non2xx"
    /\ response.status = 502
    /\ backendCalls = 1
    /\ targetFormat = "clash"


\* ------------------------------------------- the target format
TargetPool == {"", "surge", "v2ray", "custom"}

FlagPool ==
    {<<>>, <<"sub">>, <<"surge">>, <<"surge", "clash">>, <<"trojan", "loon">>,
     <<"v2ray">>, <<"trojan", "sub">>, <<"singbox", "base64">>, <<"Clash">>}

UaPool ==
    {<<"Unknown">>, <<"Mozilla">>, <<"Shadowrocket">>, <<"v2rayNG">>,
     <<"Surge", "metadata">>, <<"Quantumult%20X">>, <<"clash-verge">>,
     <<"Mozilla", "clash.meta">>, <<"sing-box">>, <<"loon", "clash">>}

\* requests of the global token, their target parameter, flags and
\* User-Agent drawn from the pools
TargetInit ==
    /\ AggregatorIdle
    /\ CallIdle
    /\ SideIdle
    /\ OpsIdle
    /\ settingsData \in {st \in ResolveSettings : st.subConfig = Unset}
    /\ allMisubs \in {l \in StoredLists : \A n \in 1..Len(l) : l[n].enabled}
    /\ allProfiles = <<>>
    /\ request \in [token : {"gtok"}, profileIdentifier : {""},
                     target : TargetPool, flags : FlagPool, ua : UaPool]
    /\ reqpc = "start"
    /\ targetMisubs = <<>>
    /\ effective = NoEffective
    /\ targetFormat = ""
    /\ notifications = 0
    /\ backendCalls = 0
    /\ response = NoResponse

\* handleMisubRequest up to line 686
TargetNext ==
    \/ ResolveScope
    \/ SelectTargetAndNotify

SpecTarget == TargetInit /\ [][TargetNext]_vars

\* the format a recognized flag stands for
FlagFormat(f) == IF f \in {"v2ray", "trojan"} THEN "base64" ELSE f

Recognized(f) == \E n \in 1..Len(supportedFormats) : supportedFormats[n] = f

HasFlag(f) == \E n \in 1..Len(request.flags) : request.flags[n] = f

\* C26: once the target is selected it is the explicit target parameter if
\* one is given; otherwise the format of the first flag of the list of
\* recognized flags that the query holds (v2ray and trojan standing for
\* base64); otherwise the format of the first keyword of the ordered mapping
\* that the lower-cased User-Agent contains; otherwise clash. It is never
\* empty.
C26_TargetPrecedence ==
    reqpc = "notified" =>
        /\ targetFormat # ""
        /\ IF request.target # "" THEN targetFormat = request.target
           ELSE IF \E f \in SeqToSet(request.flags) : Recognized(f)
           THEN \E n \in 1..Len(supportedFormats) :
                    /\ HasFlag(supportedFormats[n])
                    /\ \A m \in 1..(n - 1) : ~HasFlag(supportedFormats[m])
                    /\ targetFormat = FlagFormat(supportedFormats[n])
           ELSE IF \E n \in 1..Len(uaMapping) : UaIncludes(request.ua, uaMapping[n][1])
           THEN \E n \in 1..Len(uaMapping) :
                    /\ UaIncludes(request.ua, uaMapping[n][1])
                    /\ \A m \in 1..(n - 1) :
                          ~UaIncludes(request.ua, uaMapping[m][1])
                    /\ targetFormat = uaMapping[n][2]
           ELSE targetFormat = "clash"

\* a flag decides against the User-Agent, and the order of the list of
\* recognized flags against the order of the query
C26_Witness ==
    /\ reqpc = "notified"
    /\ request.target = ""
    /\ request.flags = <<"surge", "clash">>
    /\ request.ua = <<"Shadowrocket">>
    /\ targetFormat = "clash"


\* ------------------------------------------- the access notification
TgSettings ==
    [mytoken : {"gtok"}, profileToken : {Unset},
     subConverter : {Unset, "bad host"}, subConfig : {Unset},
     prependSubName : BOOLEAN, BotToken : {Unset, "", "bot"},
     ChatID : {Unset, "chat"}]

\* requests of the global token, with and without the Telegram settings
TgInit ==
    /\ CallIdle
    /\ SideIdle
    /\ OpsIdle
    /\ settingsData \in TgSettings
    /\ allMisubs \in {l \in StoredLists : \A n \in 1..Len(l) : l[n].enabled}
    /\ allProfiles = <<>>
    /\ request \in {r \in Requests :
                        r.token = "gtok" /\ r.profileIdentifier = ""}
    /\ outcome \in RequestOutcomes
    /\ reqpc = "start"
    /\ targetMisubs = <<>>
    /\ effective = NoEffective
    /\ targetFormat = ""
    /\ notifications = 0
    /\ backendCalls = 0
    /\ response = NoResponse
    /\ misubs = <<>>
    /\ prependSubName = FALSE
    /\ prependedContent = <<>>
    /\ aggpc = "idle"
    /\ manualNodes = <<>>
    /\ fstate = <<>>
    /\ settled = <<>>
    /\ now = 0
    /\ output = <<>>
    /\ run = "first"
    /\ firstOutput = [pc |-> "none", lines |-> <<>>]

\* the request, and the notification it dispatched settling at any time
TgNext ==
    \/ ReqNext
    \/ \E o \in TgOutcomes : NotificationSettles(o)

SpecTg == TgInit /\ [][TgNext]_vars

\* the steps handleMisubRequest takes once the notification is dispatched
\* are enabled whatever has become of it
RequestGoesOn ==
    /\ reqpc = "notified" => ENABLED CallAggregator
    /\ (reqpc = "aggregating" /\ aggpc = "done") =>
          ENABLED (RespondBase64 \/ CallBackend)
    /\ reqpc = "backend" => ENABLED BackendReplies("ok")

\* C24: the access notification is dispatched and not awaited: while it is
\* pending the request takes its next step; when it settles, true or false,
\* nothing of the request or of its response changes; a request whose settings
\* lack the bot token or the chat id has false at once; sendTgNotification
\* never raises.
C24_NotificationDetached ==
    /\ [](tg # "raised")
    /\ [](reqpc \in {"none", "start", "resolved"} => tg = "none")
    /\ [](tg \in {"pending", "true"} => ~TgSkipped(settingsData))
    /\ []((tg # "none" /\ TgSkipped(settingsData)) => tg = "false")
    /\ []RequestGoesOn
    /\ [][tg' # tg /\ tg # "none" =>
            /\ tg = "pending" /\ tg' \in {"true", "false"}
            /\ UNCHANGED <<reqVars, aggVars, kvLog, backendReply>>]_vars

\* the request has answered while its notification is still pending
C24_Witness ==
    /\ reqpc = "responded"
    /\ response.status = 200
    /\ tg = "pending"


\* ------------------------------------------------- handleCronTrigger
\* line 173
ONE_DAY_MS == 24 * 60 * 60 * 1000

\* a source as the refresh sees it: http is sub.url.startsWith('http'),
\* userInfo the parsed subscription-userinfo header (has = FALSE: none cached;
\* expire in seconds, 0 when the header gave none; used = upload + download),
\* lastNotifiedExpire and lastNotifiedTraffic 0 while unset
NoInfo == [has |-> FALSE, expire |-> 0, used |-> 0, total |-> 0]

Info(expire, used, total) ==
    [has |-> TRUE, expire |-> expire, used |-> used, total |-> total]

CronSub(http, enabled, userInfo, nodeCount) ==
    [http |-> http, enabled |-> enabled, userInfo |-> userInfo,
     nodeCount |-> nodeCount, lastNotifiedExpire |-> 0,
     lastNotifiedTraffic |-> 0]

\* Math.ceil(a / b), b > 0
Ceil(a, b) == -((-a) \div b)

\* line 178
DaysRemaining(userInfo, t) == Ceil(userInfo.expire * 1000 - t, ONE_DAY_MS)

\* line 193: Math.round((used / total) * 100), halves rounded up
UsagePercent(userInfo) ==
    (200 * userInfo.used + userInfo.total) \div (2 * userInfo.total)

\* lines 180 and 196: settings.NotifyThresholdDays || 7 and
\* settings.NotifyThresholdPercent || 90; 0 stands for a key not stored
ThresholdDays(settings) ==
    IF settings.NotifyThresholdDays = 0 THEN 7 ELSE settings.NotifyThresholdDays

ThresholdPercent(settings) ==
    IF settings.NotifyThresholdPercent = 0 THEN 90
    ELSE settings.NotifyThresholdPercent

\* lines 176-180
ExpireReached(sub, settings, t) ==
    /\ sub.userInfo.expire # 0
    /\ DaysRemaining(sub.userInfo, t) <= ThresholdDays(settings)

\* lines 191-196
TrafficReached(sub, settings) ==
    /\ sub.userInfo.total > 0
    /\ UsagePercent(sub.userInfo) >= ThresholdPercent(settings)

\* lines 181 and 197: !sub.lastNotified... || now - sub.lastNotified... > ONE_DAY_MS
NotThrottled(last, t) == last = 0 \/ t - last > ONE_DAY_MS

\* lines 31-65 as checkAndNotify calls it
SendResult(settings, o) ==
    IF TgSkipped(settings) THEN "false" ELSE TgResult(o)

\* a mutation of checkAndNotify: the time of the attempt is recorded whether
\* or not the message was sent
checkAndNotifyRecordsAttempt(sub, settings, t, oe, ot) ==
    IF ~sub.userInfo.has THEN [sub |-> sub, expire |-> "none", traffic |-> "none"]
    ELSE LET tryE == ExpireReached(sub, settings, t)
                     /\ (sub.lastNotifiedExpire = 0
                         \/ t - sub.lastNotifiedExpire > ONE_DAY_MS)
             tryT == TrafficReached(sub, settings)
                     /\ (sub.lastNotifiedTraffic = 0
                         \/ t - sub.lastNotifiedTraffic > ONE_DAY_MS)
         IN  [sub |-> [sub EXCEPT
                         !.lastNotifiedExpire = IF tryE THEN t ELSE @,
                         !.lastNotifiedTraffic = IF tryT THEN t ELSE @],
              expire |-> IF tryE THEN SendResult(settings, oe) ELSE "none",
              traffic |-> IF tryT THEN SendResult(settings, ot) ELSE "none"]

\* lines 170-206: the source after the call, and what became of each kind of
\* notification: "none" when not attempted, else what the send returned
checkAndNotify(sub, settings, t, oe, ot) ==
    IF ~sub.userInfo.has THEN [sub |-> sub, expire |-> "none", traffic |-> "none"]
    ELSE LET tryE == ExpireReached(sub, settings, t)
                     /\ NotThrottled(sub.lastNotifiedExpire, t)
             sentE == IF tryE THEN SendResult(settings, oe) ELSE "none"
             tryT == TrafficReached(sub, settings)
                     /\ NotThrottled(sub.lastNotifiedTraffic, t)
             sentT == IF tryT THEN SendResult(settings, ot) ELSE "none"
         IN  [sub |-> [sub EXCEPT
                         !.lastNotifiedExpire = IF sentE = "true" THEN t ELSE @,
                         !.lastNotifiedTraffic = IF sentT = "true" THEN t ELSE @],
              expire |-> sentE,
              traffic |-> sentT]

\* ------------------------------------------- inputs of the refresh model
MaxRuns == 3

\* the clock when the first run starts, and the time between two runs
CronEpoch == 2 * ONE_DAY_MS

RunGaps == {60 * 60 * 1000, ONE_DAY_MS, ONE_DAY_MS + 1}

\* subscription-userinfo headers: no expiry and little used; expiry in three
\* days and 7/8 used; expired and all used
InfoPool ==
    {Info(0, 1, 8), Info(5 * 86400, 7, 8), Info(86400, 8, 8)}

\* what the traffic request of lines 77-81 meets: rejected (network error or
\* the 8000 ms timer), a non-2xx reply, a reply without the header, a header
TrafficOutcomes ==
    {[kind |-> k, info |-> NoInfo] : k \in {"rejected", "nonok", "noheader"}}
    \cup {[kind |-> "info", info |-> u] : u \in InfoPool}

\* what the node count request of lines 82-86 meets: rejected, a non-2xx
\* reply, a body that cannot be read, a body with so many node lines
CountOutcomes ==
    {[kind |-> k, matches |-> 0] : k \in {"rejected", "nonok", "bodyerr"}}
    \cup {[kind |-> "text", matches |-> m] : m \in {0, 2}}

\* what a send of checkAndNotify meets
CronTgOutcomes == {"ok", "neterr"}

StoredCronLists ==
    {<<CronSub(TRUE, TRUE, NoInfo, 0), CronSub(FALSE, TRUE, NoInfo, 0)>>,
     <<CronSub(TRUE, FALSE, NoInfo, 0), CronSub(TRUE, TRUE, Info(0, 1, 8), 2)>>,
     <<CronSub(TRUE, TRUE, Info(0, 1, 8), 2)>>}

\* the settings read at line 70: defaultSettings when none are stored; stored
\* settings with and without the Telegram keys and the thresholds
CronSettingsPool ==
    {[BotToken |-> Unset, ChatID |-> Unset,
      NotifyThresholdDays |-> defaultSettings.NotifyThresholdDays,
      NotifyThresholdPercent |-> defaultSettings.NotifyThresholdPercent],
     [BotToken |-> "bot", ChatID |-> "chat", NotifyThresholdDays |-> 0,
      NotifyThresholdPercent |-> 0],
     [BotToken |-> "bot", ChatID |-> "chat", NotifyThresholdDays |-> 1,
      NotifyThresholdPercent |-> 88]}

CronInit ==
    /\ AggregatorIdle
    /\ RequestIdle
    /\ CallIdle
    /\ SideIdle
    /\ ApiIdle
    /\ cronpc = "idle"
    /\ storedSubs \in StoredCronLists
    /\ cronSettings \in CronSettingsPool
    /\ allSubs = <<>>
    /\ ci = 0
    /\ changesMade = FALSE
    /\ clock = CronEpoch
    /\ runs = 0
    /\ attempt = NoAttempt
    /\ lastOk = [n \in 1..Len(storedSubs) |-> [expire |-> 0, traffic |-> 0]]
    /\ refreshed = {}

\* lines 67-72: a run starts, some time after the one before
CronStart(gap) ==
    /\ cronpc \in {"idle", "done"}
    /\ runs < MaxRuns
    /\ runs' = runs + 1
    /\ clock' = IF runs = 0 THEN clock ELSE clock + gap
    /\ allSubs' = storedSubs
    /\ kvLog' = <<KvGet(KV_KEY_SUBS), KvGet(KV_KEY_SETTINGS)>>
    /\ changesMade' = FALSE
    /\ refreshed' = {}
    /\ ci' = 1
    /\ attempt' = NoAttempt
    /\ cronpc' = "loop"
    /\ UNCHANGED <<storedSubs, cronSettings, lastOk>>
    /\ UNCHANGED <<tg, backendReply>>
    /\ UNCHANGED <<aggVars, reqVars, callVars, apiVars>>

\* line 75: a source that is not an enabled HTTP source is passed over
CronSkipsSource ==
    /\ cronpc = "loop" /\ ci <= Len(allSubs)
    /\ ~(allSubs[ci].http /\ allSubs[ci].enabled)
    /\ ci' = ci + 1
    /\ UNCHANGED <<cronpc, storedSubs, cronSettings, allSubs, changesMade, clock,
                   runs, attempt, lastOk, refreshed>>
    /\ UNCHANGED <<aggVars, reqVars, callVars, sideVars, apiVars>>

\* lines 76-131: both requests of one source settle and the source is updated
CronRefreshesSource(tr, cn, oe, ot) ==
    /\ cronpc = "loop" /\ ci <= Len(allSubs)
    /\ allSubs[ci].http /\ allSubs[ci].enabled
    /\ LET gotInfo == tr.kind = "info"
           withInfo == IF gotInfo THEN [allSubs[ci] EXCEPT !.userInfo = tr.info]
                       ELSE allSubs[ci]
           c == IF gotInfo
                THEN checkAndNotify(withInfo, cronSettings, clock, oe, ot)
                ELSE [sub |-> withInfo, expire |-> "none", traffic |-> "none"]
           counted == cn.kind = "text" /\ cn.matches > 0
       IN  /\ allSubs' = [allSubs EXCEPT ![ci] =
                            IF counted THEN [c.sub EXCEPT !.nodeCount = cn.matches]
                            ELSE c.sub]
           /\ changesMade' = (changesMade \/ gotInfo \/ counted)
           /\ refreshed' = IF gotInfo \/ counted THEN refreshed \cup {ci}
                           ELSE refreshed
           /\ attempt' = [idx |-> ci, called |-> gotInfo, expire |-> c.expire,
                          traffic |-> c.traffic]
           /\ lastOk' = [lastOk EXCEPT ![ci] =
                           [expire |-> IF c.expire = "true" THEN clock ELSE @.expire,
                            traffic |-> IF c.traffic = "true" THEN clock
                                        ELSE @.traffic]]
    /\ ci' = ci + 1
    /\ UNCHANGED <<cronpc, storedSubs, cronSettings, clock, runs>>
    /\ UNCHANGED <<aggVars, reqVars, callVars, sideVars, apiVars>>

\* a mutation of CronFinishes: the list is written at the end of every run
CronFinishesAlwaysWrites ==
    /\ cronpc = "loop" /\ ci > Len(allSubs)
    /\ storedSubs' = allSubs
    /\ kvLog' = Append(kvLog, KvPut(KV_KEY_SUBS))
    /\ cronpc' = "done"
    /\ UNCHANGED <<cronSettings, allSubs, ci, changesMade, clock, runs, attempt,
                   lastOk, refreshed>>
    /\ UNCHANGED <<tg, backendReply>>
    /\ UNCHANGED <<aggVars, reqVars, callVars, apiVars>>

\* lines 132-139: after the loop the list is written if changesMade
CronFinishes ==
    /\ cronpc = "loop" /\ ci > Len(allSubs)
    /\ IF changesMade
       THEN /\ storedSubs' = allSubs
            /\ kvLog' = Append(kvLog, KvPut(KV_KEY_SUBS))
       ELSE UNCHANGED <<storedSubs, kvLog>>
    /\ cronpc' = "done"
    /\ UNCHANGED <<cronSettings, allSubs, ci, changesMade, clock, runs, attempt,
                   lastOk, refreshed>>
    /\ UNCHANGED <<tg, backendReply>>
    /\ UNCHANGED <<aggVars, reqVars, callVars, apiVars>>

CronNext ==
    \/ \E gap \in RunGaps : CronStart(gap)
    \/ CronSkipsSource
    \/ \E tr \in TrafficOutcomes, cn \in CountOutcomes,
          oe \in CronTgOutcomes, ot \in CronTgOutcomes :
            CronRefreshesSource(tr, cn, oe, ot)
    \/ CronFinishes

SpecCron == CronInit /\ [][CronNext]_vars


\* ------------------------------------------- claims on the refresh run
\* the step that refreshed source n
RefreshedStep(n) == cronpc = "loop" /\ ci = n /\ ci' = n + 1 /\ attempt'.idx = n

\* no notification of the kind succeeded in the day before t
NoneInLastDay(last, t) == last = 0 \/ t - last > ONE_DAY_MS

StoreInit ==
    \/ TgInit
    \/ CronInit

StoreNext ==
    \/ TgNext
    \/ CronNext

SpecStore == StoreInit /\ [][StoreNext]_vars

Writes(log) == SelectSeq(log, LAMBDA e : e.op \in {"put", "delete"})

\* a subscription request reads the three records once, when it starts, and
\* writes nothing
RequestOnlyReads ==
    reqpc # "none" =>
        kvLog = IF reqpc = "start" THEN <<>>
                ELSE <<KvGet(KV_KEY_SETTINGS), KvGet(KV_KEY_SUBS),
                       KvGet(KV_KEY_PROFILES)>>

\* a refresh run writes at most once, the source list, as its last operation
\* and after the loop has passed every source
CronWritesOnceAtEnd ==
    cronpc \in {"loop", "done"} =>
        /\ Len(Writes(kvLog)) <= 1
        /\ \A n \in 1..Len(kvLog) :
             kvLog[n].op # "get" =>
                /\ kvLog[n] = KvPut(KV_KEY_SUBS)
                /\ n = Len(kvLog)
                /\ cronpc = "done" /\ ci > Len(allSubs)

\* the step of a refresh run that writes the list
CronPuts == cronpc = "loop" /\ Len(Writes(kvLog')) > Len(Writes(kvLog))

\* C25 as stated: a subscription request reads the settings, source and
\* profile records once at its start and never writes; a refresh run writes
\* the source list at most once, after every source has been processed, and
\* only if the cached data of some source changed.
C25_WriteOnlyOnChange ==
    /\ []RequestOnlyReads
    /\ []CronWritesOnceAtEnd
    /\ [][CronPuts => storedSubs' # storedSubs]_vars

\* C25, amended: a subscription request reads the settings, source and
\* profile records once at its start and never writes; a refresh run writes
\* the source list at most once, after every source has been processed, and
\* exactly when the run refreshed some source (received its userinfo header
\* or counted its node lines), whether or not the values differ from the
\* cached ones.
C25_WriteOnlyOnRefresh ==
    /\ []RequestOnlyReads
    /\ []CronWritesOnceAtEnd
    /\ [](cronpc = "done" => (Writes(kvLog) # <<>> <=> refreshed # {}))
    /\ [][CronPuts => (refreshed # {} /\ storedSubs' = allSubs)]_vars

\* a run that refreshed a source has written the list, once
C25_Witness ==
    /\ cronpc = "done"
    /\ refreshed # {}
    /\ Writes(kvLog) = <<KvPut(KV_KEY_SUBS)>>
    /\ storedSubs = allSubs


\* ------------------------------------------------- handleApiRequest
\* line 8
SESSION_DURATION == 8 * 60 * 60 * 1000

\* a stored value: its data, and whether its text is as some writer left it
\* or the output of JSON.stringify
Stored(data) == [has |-> TRUE, data |-> data, text |-> "stored"]

\* JSON.stringify(x) of the value parsed from v: the data in canonical text
Stringified(v) == [has |-> TRUE, data |-> v.data, text |-> "stringified"]

NotJson == "<not json>"

\* get(key, 'json') throws on a value that is not JSON
GetJsonThrows(v) == v.has /\ v.data = NotJson

\* !value, for the value get(key, 'json') returned
Falsy(v) == ~v.has \/ v.data = "null"

\* what kvLog records besides the store operations
SessionCheck(result) == [op |-> "session", key |-> result]

Fetch(target) == [op |-> "fetch", key |-> target]

\* a session cookie: the number of parts its token splits into at '.', the
\* data part, whether the signature is the HMAC of the data under
\* COOKIE_SECRET, and Date.now() less the timestamp the data holds
Session(age) ==
    [has |-> TRUE, parts |-> 2, data |-> "ts", signed |-> TRUE, age |-> age]

Forged == [has |-> TRUE, parts |-> 2, data |-> "ts", signed |-> FALSE, age |-> 0]

NoDot == [has |-> TRUE, parts |-> 1, data |-> "ts", signed |-> FALSE, age |-> 0]

NoData == [has |-> TRUE, parts |-> 2, data |-> "", signed |-> FALSE, age |-> 0]

\* lines 151-158: "null", the data, or "raised" when createSignedToken throws
\* on empty data (line 142)
verifySignedToken(cookie) ==
    IF cookie.parts # 2 THEN "null"
    ELSE IF cookie.data = "" THEN "raised"
    ELSE IF cookie.signed THEN cookie.data
    ELSE "null"

\* lines 160-168: "true", "false", or "raised" when verifySignedToken rejects
authMiddleware(req) ==
    IF ~req.secret THEN "false"
    ELSE IF ~req.cookie.has THEN "false"
    ELSE LET verifiedData == verifySignedToken(req.cookie)
         IN  IF verifiedData = "raised" THEN "raised"
             ELSE IF verifiedData = "null" THEN "false"
             ELSE IF req.cookie.age < SESSION_DURATION THEN "true"
             ELSE "false"

\* ------------------------------------------- inputs of the API model
MaxCalls == 3

ApiPaths ==
    {"/migrate", "/login", "/logout", "/data", "/misubs", "/node_count",
     "/settings", "/nowhere"}

Req(path, method, cookie, body) ==
    [path |-> path, method |-> method, cron |-> FALSE, secret |-> TRUE,
     cookie |-> cookie, body |-> body]

\* the age of a session an hour old
HourOld == SESSION_DURATION \div 8

\* requests without a session: no cookie on every path; a stale, forged or
\* malformed cookie on two; no COOKIE_SECRET configured
SessionlessRequests ==
    {Req(p, "POST", NoCookie, "json") : p \in ApiPaths}
    \cup {Req(p, "POST", c, "json") :
            p \in {"/data", "/migrate"},
            c \in {Session(SESSION_DURATION), Forged, NoDot, NoData}}
    \cup {[Req(p, "POST", Forged, "json") EXCEPT !.secret = FALSE] :
            p \in {"/data", "/login"}}

\* requests with a session
SessionRequests ==
    {Req(p, "GET", Session(HourOld), "json") :
        p \in {"/migrate", "/logout", "/data", "/nowhere", "/login",
               "/node_count", "/settings"}}
    \cup {Req("/data", "GET", Session(SESSION_DURATION - 1), "json")}
    \cup {Req(p, "POST", Session(HourOld), b) :
            p \in {"/misubs", "/node_count", "/settings", "/login"},
            b \in {"json", "notjson", "missing"}}
    \cup {Req("/settings", "DELETE", Session(HourOld), "json")}

\* requests carrying a cf-cron header
CronHeaderRequests ==
    {[Req(p, "GET", NoCookie, "json") EXCEPT !.cron = TRUE] :
        p \in {"/data", "/migrate"}}

ApiRequests == SessionlessRequests \cup SessionRequests \cup CronHeaderRequests

LegacyValues == {Absent, Stored("null"), Stored(NotJson), Stored("legacy list")}

ApiInit ==
    /\ AggregatorIdle
    /\ RequestIdle
    /\ CallIdle
    /\ SideIdle
    /\ CronIdle
    /\ apipc = "idle"
    /\ apiReq = NoRequest
    /\ apiResp = 0
    /\ \E old \in LegacyValues, hasNew \in BOOLEAN, hasSettings \in BOOLEAN :
         kv = [old |-> old,
               subs |-> IF hasNew THEN Stored("user list") ELSE Absent,
               profiles |-> IF hasNew THEN Stored("user profiles") ELSE Absent,
               backup |-> Absent,
               settings |-> IF hasSettings THEN Stored("settings") ELSE Absent]
    /\ calls = 0
    /\ migrated = FALSE

\* onRequest, lines 743-755: a request under /api/ arrives
Arrives(req) ==
    /\ apipc \in {"idle", "answered", "crashed"}
    /\ calls < MaxCalls
    /\ calls' = calls + 1
    /\ apiReq' = req

\* what an action of the API leaves alone
ApiFrame ==
    /\ UNCHANGED <<tg, backendReply>>
    /\ UNCHANGED <<aggVars, reqVars, callVars, cronVars>>

Answer(status, log) ==
    /\ apipc' = "answered"
    /\ apiResp' = status
    /\ kvLog' = log

\* lines 747-749 and 67-139: a request with a cf-cron header is handed to
\* handleCronTrigger whatever its path; the run writes the list when it
\* refreshed a source
RoutedToCron(req, refreshedSome) ==
    /\ Arrives(req)
    /\ req.cron
    /\ refreshedSome => kv.subs.has
    /\ Answer(200,
              <<KvGet(KV_KEY_SUBS), KvGet(KV_KEY_SETTINGS)>>
              \o (IF kv.subs.has THEN <<Fetch("source"), Fetch("source")>>
                  ELSE <<>>)
              \o (IF refreshedSome THEN <<KvPut(KV_KEY_SUBS)>> ELSE <<>>))
    /\ kv' = IF refreshedSome
             THEN [kv EXCEPT !.subs = Stringified(Stored("refreshed list"))]
             ELSE kv
    /\ UNCHANGED migrated
    /\ ApiFrame

\* lines 213 and 254-256: the session check fails, or raises
Unauthorized(req) ==
    /\ Arrives(req)
    /\ ~req.cron
    /\ req.path # "/login"
    /\ authMiddleware(req) # "true"
    /\ IF authMiddleware(req) = "raised"
       THEN /\ apipc' = "crashed"
            /\ apiResp' = 0
            /\ kvLog' = <<SessionCheck("raised")>>
       ELSE Answer(401, <<SessionCheck("false")>>)
    /\ UNCHANGED <<kv, migrated>>
    /\ ApiFrame

\* the store after the first n of the four writes of lines 225-228
AfterWrites(store, n) ==
    [store EXCEPT
        !.subs = IF n >= 1 THEN Stringified(store.old) ELSE @,
        !.profiles = IF n >= 2 THEN Stringified(Stored("[]")) ELSE @,
        !.backup = IF n >= 3 THEN Stringified(store.old) ELSE @,
        !.old = IF n >= 4 THEN Absent ELSE @]

\* line 227: OLD_KV_KEY + '_migrated_on_' + new Date().toISOString()
BackupKey == "misub_data_v1_migrated_on_<date>"

MigrateWrites ==
    <<KvPut(KV_KEY_SUBS), KvPut(KV_KEY_PROFILES), KvPut(BackupKey),
      KvDelete(OLD_KV_KEY)>>

\* a mutation of Migrate: the subscription-list key is not looked at
MigrateUnchecked(req, fail) ==
    /\ Arrives(req)
    /\ ~req.cron
    /\ req.path = "/migrate"
    /\ authMiddleware(req) = "true"
    /\ IF GetJsonThrows(kv.old)
       THEN /\ fail = 0
            /\ Answer(500, <<SessionCheck("true"), KvGet(OLD_KV_KEY)>>)
            /\ UNCHANGED <<kv, migrated>>
       ELSE IF Falsy(kv.old)
       THEN /\ fail = 0
            /\ Answer(404, <<SessionCheck("true"), KvGet(OLD_KV_KEY),
                             KvGet(KV_KEY_SUBS)>>)
            /\ UNCHANGED <<kv, migrated>>
       ELSE LET done == IF fail = 0 THEN 4 ELSE fail - 1
            IN  /\ Answer(IF fail = 0 THEN 200 ELSE 500,
                          <<SessionCheck("true"), KvGet(OLD_KV_KEY),
                            KvGet(KV_KEY_SUBS)>>
                          \o SubSeq(MigrateWrites, 1, done))
                /\ kv' = AfterWrites(kv, done)
                /\ migrated' = (migrated \/ fail = 0)
    /\ ApiFrame

\* lines 212-235: fail = 0 when every write succeeds, else the number of the
\* write of lines 225-228 that throws
Migrate(req, fail) ==
    /\ Arrives(req)
    /\ ~req.cron
    /\ req.path = "/migrate"
    /\ authMiddleware(req) = "true"
    /\ IF GetJsonThrows(kv.old)
       THEN /\ fail = 0
            /\ Answer(500, <<SessionCheck("true"), KvGet(OLD_KV_KEY)>>)
            /\ UNCHANGED <<kv, migrated>>
       ELSE IF kv.subs.has
       THEN /\ fail = 0
            /\ Answer(200, <<SessionCheck("true"), KvGet(OLD_KV_KEY),
                             KvGet(KV_KEY_SUBS)>>)
            /\ UNCHANGED <<kv, migrated>>
       ELSE IF Falsy(kv.old)
       THEN /\ fail = 0
            /\ Answer(404, <<SessionCheck("true"), KvGet(OLD_KV_KEY),
                             KvGet(KV_KEY_SUBS)>>)
            /\ UNCHANGED <<kv, migrated>>
       ELSE LET done == IF fail = 0 THEN 4 ELSE fail - 1
            IN  /\ Answer(IF fail = 0 THEN 200 ELSE 500,
                          <<SessionCheck("true"), KvGet(OLD_KV_KEY),
                            KvGet(KV_KEY_SUBS)>>
                          \o SubSeq(MigrateWrites, 1, done))
                /\ kv' = AfterWrites(kv, done)
                /\ migrated' = (migrated \/ fail = 0)
    /\ ApiFrame

\* lines 237-253: pw is whether the password of the body is ADMIN_PASSWORD;
\* createSignedToken throws without COOKIE_SECRET, inside the try
Login(req, pw) ==
    /\ Arrives(req)
    /\ ~req.cron
    /\ req.path = "/login"
    /\ Answer(IF req.method # "POST" THEN 405
              ELSE IF req.body = "notjson" THEN 400
              ELSE IF ~pw THEN 401
              ELSE IF ~req.secret THEN 400
              ELSE 200,
              <<>>)
    /\ UNCHANGED <<kv, migrated>>
    /\ ApiFrame

\* the session check of lines 254-256 passes
Passes(req, path) ==
    /\ Arrives(req)
    /\ ~req.cron
    /\ req.path = path
    /\ authMiddleware(req) = "true"

\* lines 259-263, and line 412 for a path of no route
LogoutOrNotFound(req) ==
    /\ \/ /\ Passes(req, "/logout")
          /\ Answer(200, <<SessionCheck("true")>>)
       \/ /\ Passes(req, "/nowhere")
          /\ Answer(404, <<SessionCheck("true")>>)
    /\ UNCHANGED <<kv, migrated>>
    /\ ApiFrame

\* lines 265-282
Data(req) ==
    /\ Passes(req, "/data")
    /\ Answer(200, <<SessionCheck("true"), KvGet(KV_KEY_SUBS),
                     KvGet(KV_KEY_PROFILES), KvGet(KV_KEY_SETTINGS)>>)
    /\ UNCHANGED <<kv, migrated>>
    /\ ApiFrame

\* lines 284-308: notify is whether checkAndNotify sends for some source
SaveMisubs(req, notify) ==
    /\ Passes(req, "/misubs")
    /\ IF req.body = "notjson"
       THEN /\ ~notify
            /\ Answer(500, <<SessionCheck("true")>>)
            /\ UNCHANGED kv
       ELSE IF req.body = "missing"
       THEN /\ ~notify
            /\ Answer(400, <<SessionCheck("true")>>)
            /\ UNCHANGED kv
       ELSE /\ Answer(200,
                      <<SessionCheck("true"), KvGet(KV_KEY_SETTINGS)>>
                      \o (IF notify THEN <<Fetch("telegram")>> ELSE <<>>)
                      \o <<KvPut(KV_KEY_SUBS), KvPut(KV_KEY_PROFILES)>>)
            /\ kv' = [kv EXCEPT !.subs = Stringified(Stored("user list")),
                                !.profiles = Stringified(Stored("user profiles"))]
    /\ UNCHANGED migrated
    /\ ApiFrame

\* lines 310-380: found is whether a userinfo header or node lines came back,
\* and the stored list holds the URL
NodeCount(req, found) ==
    /\ Passes(req, "/node_count")
    /\ IF req.method # "POST"
       THEN /\ ~found
            /\ Answer(405, <<SessionCheck("true")>>)
            /\ UNCHANGED kv
       ELSE IF req.body = "notjson"
       THEN /\ ~found
            /\ apipc' = "crashed"
            /\ apiResp' = 0
            /\ kvLog' = <<SessionCheck("true")>>
            /\ UNCHANGED kv
       ELSE IF req.body = "missing"
       THEN /\ ~found
            /\ Answer(400, <<SessionCheck("true")>>)
            /\ UNCHANGED kv
       ELSE /\ found => kv.subs.has
            /\ Answer(200,
                      <<SessionCheck("true"), Fetch("source"), Fetch("source")>>
                      \o (IF found
                          THEN <<KvGet(KV_KEY_SUBS), KvPut(KV_KEY_SUBS)>>
                          ELSE <<>>))
            /\ kv' = IF found
                     THEN [kv EXCEPT !.subs = Stringified(Stored("refreshed list"))]
                     ELSE kv
    /\ UNCHANGED migrated
    /\ ApiFrame

\* lines 382-410: notify is whether the saved settings hold the Telegram keys
Settings(req, notify) ==
    /\ Passes(req, "/settings")
    /\ IF req.method = "GET"
       THEN /\ ~notify
            /\ Answer(200, <<SessionCheck("true"), KvGet(KV_KEY_SETTINGS)>>)
            /\ UNCHANGED kv
       ELSE IF req.method # "POST"
       THEN /\ ~notify
            /\ Answer(405, <<SessionCheck("true")>>)
            /\ UNCHANGED kv
       ELSE IF req.body = "notjson"
       THEN /\ ~notify
            /\ Answer(500, <<SessionCheck("true")>>)
            /\ UNCHANGED kv
       ELSE /\ Answer(200,
                      <<SessionCheck("true"), KvGet(KV_KEY_SETTINGS),
                        KvPut(KV_KEY_SETTINGS)>>
                      \o (IF notify THEN <<Fetch("telegram")>> ELSE <<>>))
            /\ kv' = [kv EXCEPT !.settings = Stringified(Stored("settings"))]
    /\ UNCHANGED migrated
    /\ ApiFrame

ApiNext ==
    \/ \E req \in ApiRequests, refreshedSome \in BOOLEAN :
          RoutedToCron(req, refreshedSome)
    \/ \E req \in ApiRequests : Unauthorized(req)
    \/ \E req \in ApiRequests, fail \in 0..4 : Migrate(req, fail)
    \/ \E req \in ApiRequests, pw \in BOOLEAN : Login(req, pw)
    \/ \E req \in ApiRequests : LogoutOrNotFound(req)
    \/ \E req \in ApiRequests : Data(req)
    \/ \E req \in ApiRequests, notify \in BOOLEAN : SaveMisubs(req, notify)
    \/ \E req \in ApiRequests, found \in BOOLEAN : NodeCount(req, found)
    \/ \E req \in ApiRequests, notify \in BOOLEAN : Settings(req, notify)

SpecApi == ApiInit /\ [][ApiNext]_vars


\* ------------------------------------------- claims on the API
\* the step of an authenticated /api/migrate call
MigrateStep ==
    /\ calls' = calls + 1
    /\ apiReq'.path = "/migrate" /\ ~apiReq'.cron
    /\ kvLog' # <<>> /\ kvLog'[1] = SessionCheck("true")

\* the legacy key holds data
LegacyData(v) == v.has /\ v.data \notin {"null", NotJson}

\* C28: in every authenticated /api/migrate call, if the subscription-list
\* key exists nothing is written; otherwise, if legacy data exists and the
\* call succeeds, the subscription-list key holds the legacy data, the
\* profile list is empty, a backup holds the legacy data and the legacy key
\* is gone; if neither key exists the call answers 404 and writes nothing;
\* and every call after a successful migration writes nothing.
C28_MigrationIdempotent ==
    [][MigrateStep =>
         /\ kv.subs.has => kv' = kv
         /\ (~kv.subs.has /\ LegacyData(kv.old) /\ apiResp' = 200) =>
               /\ kv'.subs.has /\ kv'.subs.data = kv.old.data
               /\ kv'.profiles.has /\ kv'.profiles.data = "[]"
               /\ kv'.backup.has /\ kv'.backup.data = kv.old.data
               /\ ~kv'.old.has
               /\ kv'.settings = kv.settings
         /\ (~kv.subs.has /\ ~kv.old.has) => (apiResp' = 404 /\ kv' = kv)
         /\ migrated => kv' = kv]_vars

\* a migrate call after a successful migration has answered 200 and written
\* nothing
C28_Witness ==
    /\ migrated
    /\ apiReq.path = "/migrate"
    /\ apiResp = 200
    /\ kvLog = <<SessionCheck("true"), KvGet(OLD_KV_KEY), KvGet(KV_KEY_SUBS)>>
    /\ kv.subs.data = "legacy list" /\ kv.backup.has /\ ~kv.old.has

\* the request carries a session cookie with a validly signed timestamp less
\* than 8 hours old
HasSession(req) ==
    /\ req.secret
    /\ req.cookie.has /\ req.cookie.parts = 2 /\ req.cookie.data # ""
    /\ req.cookie.signed
    /\ req.cookie.age < SESSION_DURATION

\* C29: every /api/ request other than /login that lacks a session cookie
\* with a validly signed timestamp less than 8 hours old is answered 401
\* without any store read, store write or outbound fetch; and every put or
\* delete of an /api/ request comes after its session check has passed.
C29_SessionGate ==
    (apipc \in {"answered", "crashed"} /\ apiReq.path # "/login") =>
        /\ ~HasSession(apiReq) =>
              /\ apipc = "answered" /\ apiResp = 401
              /\ \A n \in 1..Len(kvLog) : kvLog[n].op = "session"
        /\ \A n \in 1..Len(kvLog) :
              kvLog[n].op \in {"put", "delete"} =>
                 \E m \in 1..(n - 1) : kvLog[m] = SessionCheck("true")

====
